---- MODULE Spec2Model ----
(***************************************************************************)
(* Trade ledger (TradeLedger durable object) and HMRC share matching       *)
(* (computeHmrc) of svc-arbi-dash.                                          *)
(*                                                                         *)
(* Time is counted in ticks of half a civil day; tick 0 is 00:00           *)
(* Europe/London on 6 March 2024, so that day 30 is 5 April 2024 and day   *)
(* 31 is 6 April 2024.  Quantities are whole units (every quantity and     *)
(* every difference of quantities is 0 or far above the 1e-7 threshold of  *)
(* hmrc.ts:242); money is exact rational arithmetic.                        *)
(***************************************************************************)
EXTENDS Integers, Sequences, FiniteSets, TLC

VARIABLES
  \* ---- computeHmrc (hmrc.ts) ----
  pc,              \* position inside computeHmrc
  trades,          \* the Trade[] passed to computeHmrc
  enrichedTrades,  \* EnrichedTrade[] in input order
  assetIdx,        \* index of the next byAsset entry of the running pass
  sweepIdx,        \* index of the next trade of the chronological sweep
  pools,           \* Map<AssetSymbol, PoolState>
  closingSnapshot, \* null or the clone taken by the sweep
  snapshotAt,      \* options.poolSnapshotAt
  poolTrace,       \* history: the pools after each step of the sweep
  windowStart,     \* options.windowStart
  windowEnd,       \* options.windowEnd
  report           \* the HmrcComputation returned

hmrcVars == <<pc, trades, enrichedTrades, assetIdx, sweepIdx, pools, closingSnapshot,
              snapshotAt, poolTrace, windowStart, windowEnd, report>>

VARIABLES
  \* ---- TradeLedger (worker/src/index.ts) ----
  store,           \* storage keys trade:<id> -> Trade
  byAssetIdx,      \* storage keys by-asset:<asset>:<padded ts>:<id>
  byTaxYearIdx,    \* storage keys by-taxyear:<label>:<padded ts>:<id>
  response,        \* route and status of the response to the last request
  pending          \* the update suspended in the FX lookup: <<>> or <<[id, existing, merged]>>

ledgerVars == <<store, byAssetIdx, byTaxYearIdx, response, pending>>

VARIABLES
  \* ---- GET /trades and its client (useTradesApi) ----
  filters,         \* the list filters of the client
  limit,           \* the limit the client asks for
  cursor,          \* useTradesApi cursor: <<>> for null, else <<id>>
  clientState,     \* useTradesApi state: trades, status, hasMore
  lastList,        \* the last list request with its TradeListResponse
  steady           \* history: the trades stored and matching the filters ever
                   \* since the first call of the traversal

listVars == <<filters, limit, cursor, clientState, lastList, steady>>

vars == <<hmrcVars, ledgerVars, listVars>>

----------------------------------------------------------------------------
(* Bounds of the model *)

MaxTrades == 3
MaxQty == 2
TicksPerDay == 2

DAY_DIFF_LIMIT == 30

Assets == {"BTC", "ETH", "USDT"}
InputAssets == {"BTC", "ETH"}
Sides == {"BUY", "SELL"}
Days == {0, DAY_DIFF_LIMIT, DAY_DIFF_LIMIT + 1}
TsValues == {d * TicksPerDay : d \in Days} \cup {1}

Undefined == -1
Infinity == 1000000

----------------------------------------------------------------------------
(* JavaScript numbers used for money: exact rationals n/d with d > 0 *)

Abs(x) == IF x < 0 THEN -x ELSE x
Min(a, b) == IF a < b THEN a ELSE b
Max(a, b) == IF a > b THEN a ELSE b

RECURSIVE GCD(_, _)
GCD(a, b) == IF b = 0 THEN a ELSE GCD(b, a % b)

Rat(n, d) == LET g == GCD(Abs(n), d) IN [n |-> n \div g, d |-> d \div g]
RInt(k) == [n |-> k, d |-> 1]
RAdd(x, y) == Rat(x.n * y.d + y.n * x.d, x.d * y.d)
RSub(x, y) == Rat(x.n * y.d - y.n * x.d, x.d * y.d)
RMul(x, y) == Rat(x.n * y.n, x.d * y.d)
RDivInt(x, k) == Rat(x.n, x.d * k)

----------------------------------------------------------------------------
(* Time helpers (lib/time.ts) *)

ukDayKey(ts) == ts \div TicksPerDay

----------------------------------------------------------------------------
(* Input of computeHmrc: resolved trades *)

(* a record has field f; a record without field f *)
Has(r, f) == f \in DOMAIN r
Without(p, f) == [g \in DOMAIN p \ {f} |-> p[g]]

PriceOf(i) == 1 + (i % 3)
FeeOf(i) == i % 2

InputTrade(i, ts, asset, side, qty) ==
  [id |-> i, ts |-> ts, asset |-> asset, side |-> side, quantity |-> qty,
   derived |-> [perUnitGBP |-> PriceOf(i),
                gbpProceedsOrCost |-> PriceOf(i) * qty,
                feeGBP |-> FeeOf(i)]]


----------------------------------------------------------------------------
(* ensureEnriched *)

NoRef == 0

(* line 57-63: neither of the two throws of ensureEnriched is taken *)
Enrichable(trade) == Has(trade, "derived") /\ Has(trade.derived, "perUnitGBP")

ensureEnriched(trade) ==
  LET fee == IF Has(trade.derived, "feeGBP") THEN trade.derived.feeGBP ELSE 0
      acquisitionCost == trade.derived.gbpProceedsOrCost + fee
      net == trade.derived.gbpProceedsOrCost - fee
  IN [id |-> trade.id, ts |-> trade.ts, asset |-> trade.asset, side |-> trade.side,
      quantity |-> trade.quantity,
      remainingQty |-> trade.quantity,
      perUnitGBP |-> RInt(trade.derived.perUnitGBP),
      totalCostPerUnit |-> IF trade.side = "BUY"
                             THEN Rat(acquisitionCost, trade.quantity)
                             ELSE RInt(trade.derived.perUnitGBP),
      netProceedsPerUnit |-> IF trade.side = "SELL"
                               THEN Rat(net, trade.quantity)
                               ELSE RInt(0),
      grossProceedsGBP |-> IF trade.side = "SELL" THEN trade.derived.gbpProceedsOrCost ELSE 0,
      disposalFeesGBP |-> IF trade.side = "SELL" THEN fee ELSE 0,
      netProceedsGBP |-> IF trade.side = "SELL" THEN net ELSE 0,
      matches |-> <<>>,
      issues |-> <<>>]

----------------------------------------------------------------------------
(* applyMatch: st is [t |-> the trades, ok |-> no exception thrown so far] *)

(* variant: the matched buy keeps its remaining quantity *)
applyMatchKeepsBuy(st, sell, qty, rule, allowableCostGBP, buy) ==
  IF ~st.ok \/ qty <= 0 THEN st
  ELSE IF st.t[sell].netProceedsPerUnit.n = 0 THEN [st EXCEPT !.ok = FALSE]
  ELSE
    LET proceeds == RMul(st.t[sell].netProceedsPerUnit, RInt(qty))
        match == [rule |-> rule,
                  buyRef |-> IF buy = NoRef THEN NoRef ELSE st.t[buy].id,
                  matchedQty |-> qty,
                  proceedsGBP |-> proceeds,
                  allowableCostGBP |-> allowableCostGBP,
                  gainGBP |-> RSub(proceeds, allowableCostGBP)]
    IN [st EXCEPT !.t[sell].matches = Append(@, match),
                  !.t[sell].remainingQty = Max(0, @ - qty)]

applyMatch(st, sell, qty, rule, allowableCostGBP, buy) ==
  IF ~st.ok \/ qty <= 0 THEN st
  ELSE IF st.t[sell].netProceedsPerUnit.n = 0 THEN [st EXCEPT !.ok = FALSE]
  ELSE
    LET proceeds == RMul(st.t[sell].netProceedsPerUnit, RInt(qty))
        gain == RSub(proceeds, allowableCostGBP)
        match == [rule |-> rule,
                  buyRef |-> IF buy = NoRef THEN NoRef ELSE st.t[buy].id,
                  matchedQty |-> qty,
                  proceedsGBP |-> proceeds,
                  allowableCostGBP |-> allowableCostGBP,
                  gainGBP |-> gain]
        t1 == [st.t EXCEPT ![sell].matches = Append(@, match),
                           ![sell].remainingQty = Max(0, @ - qty)]
        t2 == IF buy = NoRef THEN t1
              ELSE [t1 EXCEPT ![buy].remainingQty = Max(0, @ - qty)]
    IN [st EXCEPT !.t = t2]

----------------------------------------------------------------------------
(* Array.prototype.sort((a, b) => a.ts - b.ts): a stable sort of indices *)

RECURSIVE InsertByTs(_, _, _)
InsertByTs(t, sorted, i) ==
  IF sorted = <<>> THEN <<i>>
  ELSE IF t[Head(sorted)].ts <= t[i].ts
    THEN <<Head(sorted)>> \o InsertByTs(t, Tail(sorted), i)
    ELSE <<i>> \o sorted

RECURSIVE SortByTs(_, _)
SortByTs(t, idxs) ==
  IF idxs = <<>> THEN <<>>
  ELSE InsertByTs(t, SortByTs(t, SubSeq(idxs, 1, Len(idxs) - 1)), idxs[Len(idxs)])

Indices(t) == [i \in 1..Len(t) |-> i]

(* byAsset: the assets in Map insertion order, and each asset's sorted trades *)
RECURSIVE AssetOrderFrom(_, _, _)
AssetOrderFrom(t, i, acc) ==
  IF i > Len(t) THEN acc
  ELSE AssetOrderFrom(t, i + 1,
         IF \E k \in 1..Len(acc) : acc[k] = t[i].asset THEN acc ELSE Append(acc, t[i].asset))

AssetOrder(t) == AssetOrderFrom(t, 1, <<>>)

ByAsset(t, asset) ==
  SortByTs(t, SelectSeq(Indices(t), LAMBDA i : t[i].asset = asset))

SellsOf(t, idxs) == SelectSeq(idxs, LAMBDA i : t[i].side = "SELL")
BuysOf(t, idxs) == SelectSeq(idxs, LAMBDA i : t[i].side = "BUY")

----------------------------------------------------------------------------
(* matchSameDay, for one entry of byAsset *)

(* variant: the sell's remainder is taken whatever the buy still holds *)
SameDayQtySellOnly(sell, buy) == sell.remainingQty

SameDayQty(sell, buy) == Min(sell.remainingQty, buy.remainingQty)

RECURSIVE SameDayBuyLoop(_, _, _)
SameDayBuyLoop(st, sell, buys) ==
  IF buys = <<>> \/ ~st.ok THEN st
  ELSE IF st.t[sell].remainingQty <= 0 THEN st
  ELSE IF st.t[Head(buys)].remainingQty <= 0 THEN SameDayBuyLoop(st, sell, Tail(buys))
  ELSE
    LET buy == Head(buys)
        qty == SameDayQty(st.t[sell], st.t[buy])
        allowable == RMul(RInt(qty), st.t[buy].totalCostPerUnit)
    IN SameDayBuyLoop(applyMatch(st, sell, qty, "SAME_DAY", allowable, buy), sell, Tail(buys))

BuysOfDay(t, buys, day) == SelectSeq(buys, LAMBDA b : ukDayKey(t[b].ts) = day)

RECURSIVE SameDaySellLoop(_, _, _)
SameDaySellLoop(st, sells, buys) ==
  IF sells = <<>> \/ ~st.ok THEN st
  ELSE SameDaySellLoop(
         SameDayBuyLoop(st, Head(sells), BuysOfDay(st.t, buys, ukDayKey(st.t[Head(sells)].ts))),
         Tail(sells), buys)

matchSameDay(st, asset) ==
  LET tradesArr == ByAsset(st.t, asset)
  IN SameDaySellLoop(st, SellsOf(st.t, tradesArr), BuysOf(st.t, tradesArr))

----------------------------------------------------------------------------
(* dayDiff and matchThirtyDay, for one entry of byAsset *)

dayDiff(sell, buy) == ukDayKey(buy.ts) - ukDayKey(sell.ts)

(* variant: the window is one day too long *)
ThirtyDayEligibleLate(sell, buy) ==
  /\ buy.remainingQty > 0
  /\ ~(buy.ts <= sell.ts)
  /\ ~(dayDiff(sell, buy) <= 0 \/ dayDiff(sell, buy) > DAY_DIFF_LIMIT + 1)

ThirtyDayEligible(sell, buy) ==
  /\ buy.remainingQty > 0
  /\ ~(buy.ts <= sell.ts)
  /\ ~(dayDiff(sell, buy) <= 0 \/ dayDiff(sell, buy) > DAY_DIFF_LIMIT)

RECURSIVE ThirtyDayBuyLoop(_, _, _)
ThirtyDayBuyLoop(st, sell, buys) ==
  IF buys = <<>> \/ ~st.ok THEN st
  ELSE IF ~ThirtyDayEligible(st.t[sell], st.t[Head(buys)])
    THEN ThirtyDayBuyLoop(st, sell, Tail(buys))
  ELSE
    LET buy == Head(buys)
        qty == Min(st.t[sell].remainingQty, st.t[buy].remainingQty)
        allowable == RMul(RInt(qty), st.t[buy].totalCostPerUnit)
        st1 == applyMatch(st, sell, qty, "WITHIN_30_DAYS", allowable, buy)
    IN IF st1.ok /\ st1.t[sell].remainingQty <= 0 THEN st1
       ELSE ThirtyDayBuyLoop(st1, sell, Tail(buys))

RECURSIVE ThirtyDaySellLoop(_, _, _)
ThirtyDaySellLoop(st, sells, buys) ==
  IF sells = <<>> \/ ~st.ok THEN st
  ELSE IF st.t[Head(sells)].remainingQty <= 0 THEN ThirtyDaySellLoop(st, Tail(sells), buys)
  ELSE ThirtyDaySellLoop(ThirtyDayBuyLoop(st, Head(sells), buys), Tail(sells), buys)

matchThirtyDay(st, asset) ==
  LET tradesArr == ByAsset(st.t, asset)
  IN ThirtyDaySellLoop(st, SellsOf(st.t, tradesArr), BuysOf(st.t, tradesArr))

----------------------------------------------------------------------------
(* Section 104 pools and the chronological sweep *)

EmptyPool == [totalQty |-> 0, totalCostGBP |-> RInt(0)]
EmptyPools == [a \in Assets |-> EmptyPool]

(* variant: the pool's cost is not divided by its quantity *)
PoolAvgCostUndivided(pool) ==
  IF pool.totalQty > 0 THEN pool.totalCostGBP ELSE RInt(0)

PoolAvgCost(pool) ==
  IF pool.totalQty > 0 THEN RDivInt(pool.totalCostGBP, pool.totalQty) ELSE RInt(0)

clonePoolState(map) ==
  [a \in Assets |-> [totalQty |-> map[a].totalQty,
                     totalCostGBP |-> map[a].totalCostGBP,
                     avgCostGBP |-> PoolAvgCost(map[a])]]

chronological(t) == SortByTs(t, Indices(t))

PoolIssue == "Section 104 pool exhausted for portion of disposal"

(* the sweep on a BUY adding the buy's whole quantity to the pool *)
SweepBuyWhole(st, i, pool) ==
  LET qty == st.t[i].quantity
  IN [t |-> [st.t EXCEPT ![i].remainingQty = 0],
      ok |-> st.ok,
      pool |-> [totalQty |-> pool.totalQty + qty,
                totalCostGBP |-> RAdd(pool.totalCostGBP,
                                      RMul(RInt(qty), st.t[i].totalCostPerUnit))]]

(* One iteration of the sweep on a BUY: [t, ok, pool] afterwards *)
SweepBuy(st, i, pool) ==
  LET qty == st.t[i].remainingQty
  IN IF qty > 0
       THEN [t |-> [st.t EXCEPT ![i].remainingQty = 0],
             ok |-> st.ok,
             pool |-> [totalQty |-> pool.totalQty + qty,
                       totalCostGBP |-> RAdd(pool.totalCostGBP,
                                             RMul(RInt(qty), st.t[i].totalCostPerUnit))]]
       ELSE [t |-> st.t, ok |-> st.ok, pool |-> pool]

(* The remainder the pool could not cover: matched at no cost, with an issue *)
SweepRemainder(st, i) ==
  LET remainder == st.t[i].remainingQty
  IN IF st.ok /\ remainder > 0
       THEN LET st1 == applyMatch(st, i, remainder, "SECTION_104", RInt(0), NoRef)
            IN IF st1.ok
                 THEN [st1 EXCEPT !.t[i].issues = Append(@, PoolIssue),
                                  !.t[i].remainingQty = 0]
                 ELSE st1
       ELSE st

(* One iteration of the sweep on a SELL *)
SweepSell(st, i, pool) ==
  IF st.t[i].remainingQty > 0
    THEN
      LET qty == st.t[i].remainingQty
          availableQty == pool.totalQty
          avgCost == PoolAvgCost(pool)
          matched == Min(qty, availableQty)
          allowable == RMul(RInt(matched), avgCost)
          st1 == IF matched > 0
                   THEN applyMatch(st, i, matched, "SECTION_104", allowable, NoRef)
                   ELSE st
          pool1 == IF matched > 0 /\ st1.ok
                     THEN [totalQty |-> pool.totalQty - matched,
                           totalCostGBP |-> RSub(pool.totalCostGBP, allowable)]
                     ELSE pool
          st2 == SweepRemainder(st1, i)
      IN [t |-> st2.t, ok |-> st2.ok, pool |-> pool1]
    ELSE [t |-> st.t, ok |-> st.ok, pool |-> pool]

SnapshotDue(trade, at) == at # Undefined /\ trade.ts <= at

----------------------------------------------------------------------------
(* The report projection of computeHmrc *)

RECURSIVE SumGains(_)
SumGains(matches) ==
  IF matches = <<>> THEN RInt(0)
  ELSE RAdd(SumGains(Tail(matches)), Head(matches).gainGBP)

(* the window test with the end of the window left out *)
InWindowOpenEnd(trade, ws, we) ==
  /\ trade.ts >= (IF ws = Undefined THEN -Infinity ELSE ws)
  /\ trade.ts < (IF we = Undefined THEN Infinity ELSE we)

InWindow(trade, ws, we) ==
  /\ trade.ts >= (IF ws = Undefined THEN -Infinity ELSE ws)
  /\ trade.ts <= (IF we = Undefined THEN Infinity ELSE we)

DisposalOf(trade) ==
  [sellRef |-> trade.id, ts |-> trade.ts, asset |-> trade.asset,
   quantity |-> trade.quantity,
   grossProceedsGBP |-> trade.grossProceedsGBP,
   disposalFeesGBP |-> trade.disposalFeesGBP,
   netProceedsGBP |-> trade.netProceedsGBP,
   matches |-> trade.matches,
   totalGainGBP |-> SumGains(trade.matches),
   issues |-> trade.issues]

FlatLines(trade) ==
  [k \in 1..Len(trade.matches) |->
     [line |-> trade.matches[k], sellRef |-> trade.id, asset |-> trade.asset, ts |-> trade.ts]]

IssueLines(trade) ==
  [k \in 1..Len(trade.issues) |-> [ref |-> trade.id, text |-> trade.issues[k]]]

RECURSIVE ProjectFrom(_, _, _, _, _)
ProjectFrom(t, i, ws, we, acc) ==
  IF i > Len(t) THEN acc
  ELSE IF t[i].side # "SELL" THEN ProjectFrom(t, i + 1, ws, we, acc)
  ELSE
    LET rep == DisposalOf(t[i])
        acc1 == [acc EXCEPT !.issues = @ \o IssueLines(t[i])]
        acc2 == IF InWindow(t[i], ws, we)
                  THEN [acc1 EXCEPT !.disposals = Append(@, rep),
                                    !.byAsset[t[i].asset] = RAdd(@, rep.totalGainGBP),
                                    !.matchLines = @ \o FlatLines(t[i])]
                  ELSE acc1
    IN ProjectFrom(t, i + 1, ws, we, acc2)

RECURSIVE SumOver(_, _)
SumOver(f, S) ==
  IF S = {} THEN RInt(0)
  ELSE LET a == CHOOSE x \in S : TRUE IN RAdd(f[a], SumOver(f, S \ {a}))

BuildReport(t, snapshot, ws, we) ==
  LET acc == ProjectFrom(t, 1, ws, we,
               [disposals |-> <<>>, matchLines |-> <<>>, issues |-> <<>>,
                byAsset |-> [a \in Assets |-> RInt(0)]])
  IN [disposals |-> acc.disposals,
      matchLines |-> acc.matchLines,
      pools |-> snapshot,
      totals |-> [overallGainGBP |-> SumOver(acc.byAsset, Assets), byAsset |-> acc.byAsset],
      issues |-> acc.issues]

----------------------------------------------------------------------------
(* computeHmrc as a state machine *)

Null == <<>>
SnapshotTimes == {Undefined, 0, DAY_DIFF_LIMIT * TicksPerDay}
Windows == {<<Undefined, Undefined>>, <<1, DAY_DIFF_LIMIT * TicksPerDay>>}

(* the ledger before any request *)
ListIdle ==
  /\ filters = <<>>
  /\ limit = 1
  /\ cursor = Null
  /\ clientState = [trades |-> <<>>, status |-> "idle", hasMore |-> FALSE]
  /\ lastList = Null
  /\ steady = {}

LedgerEmpty ==
  /\ store = <<>>
  /\ byAssetIdx = {}
  /\ byTaxYearIdx = {}
  /\ response = [route |-> "none", status |-> 0]
  /\ pending = <<>>

InitHmrc ==
  /\ pc = "start"
  /\ \E n \in 1..MaxTrades :
       \E f \in [1..n -> TsValues \X InputAssets \X Sides \X (1..MaxQty)] :
         /\ f[1][2] = "BTC"
         /\ trades = [i \in 1..n |-> InputTrade(i, f[i][1], f[i][2], f[i][3], f[i][4])]
  /\ enrichedTrades = <<>>
  /\ assetIdx = 1
  /\ sweepIdx = 1
  /\ pools = EmptyPools
  /\ closingSnapshot = Null
  /\ snapshotAt = Undefined
  /\ poolTrace = <<>>
  /\ windowStart = Undefined
  /\ windowEnd = Undefined
  /\ report = Null
  /\ LedgerEmpty
  /\ ListIdle

(* enrich leaving out the trades ensureEnriched would throw on *)
EnrichSkipping ==
  /\ pc = "start"
  /\ LET good == SelectSeq(trades, Enrichable)
     IN enrichedTrades' = [i \in 1..Len(good) |-> ensureEnriched(good[i])]
  /\ assetIdx' = 1
  /\ pc' = "sameDay"
  /\ UNCHANGED <<trades, sweepIdx, pools, closingSnapshot, snapshotAt, poolTrace,
                 windowStart, windowEnd, report>>

(* line 196-205: enrich and partition; the first throw of ensureEnriched ends
   the computation *)
Enrich ==
  /\ pc = "start"
  /\ IF \A i \in 1..Len(trades) : Enrichable(trades[i])
       THEN /\ enrichedTrades' = [i \in 1..Len(trades) |-> ensureEnriched(trades[i])]
            /\ pc' = "sameDay"
       ELSE /\ enrichedTrades' = <<>>
            /\ pc' = "failed"
  /\ assetIdx' = 1
  /\ UNCHANGED <<trades, sweepIdx, pools, closingSnapshot, snapshotAt, poolTrace,
                 windowStart, windowEnd, report>>

(* line 206: one iteration of the outer loop of matchSameDay *)
SameDayStep ==
  /\ pc = "sameDay"
  /\ LET order == AssetOrder(enrichedTrades)
         st == matchSameDay([t |-> enrichedTrades, ok |-> TRUE], order[assetIdx])
     IN /\ enrichedTrades' = st.t
        /\ IF ~st.ok THEN pc' = "failed" /\ assetIdx' = assetIdx
           ELSE IF assetIdx = Len(order) THEN pc' = "thirtyDay" /\ assetIdx' = 1
           ELSE pc' = "sameDay" /\ assetIdx' = assetIdx + 1
  /\ UNCHANGED <<trades, sweepIdx, pools, closingSnapshot, snapshotAt, poolTrace,
                 windowStart, windowEnd, report>>

(* line 207: one iteration of the outer loop of matchThirtyDay *)
ThirtyDayStep ==
  /\ pc = "thirtyDay"
  /\ LET order == AssetOrder(enrichedTrades)
         st == matchThirtyDay([t |-> enrichedTrades, ok |-> TRUE], order[assetIdx])
     IN /\ enrichedTrades' = st.t
        /\ IF ~st.ok THEN pc' = "failed" /\ assetIdx' = assetIdx
           ELSE IF assetIdx = Len(order) THEN pc' = "pools" /\ assetIdx' = 1
           ELSE pc' = "thirtyDay" /\ assetIdx' = assetIdx + 1
  /\ UNCHANGED <<trades, sweepIdx, pools, closingSnapshot, snapshotAt, poolTrace,
                 windowStart, windowEnd, report>>

(* line 209-217: fresh pools, the chronological order, the snapshot option *)
BeginSweep ==
  /\ pc = "pools"
  /\ pools' = EmptyPools
  /\ closingSnapshot' = Null
  /\ \E at \in SnapshotTimes : snapshotAt' = at
  /\ sweepIdx' = 1
  /\ poolTrace' = <<>>
  /\ pc' = "sweep"
  /\ UNCHANGED <<trades, enrichedTrades, assetIdx, windowStart, windowEnd, report>>

(* line 219-252: one iteration of the chronological sweep *)
SweepStep ==
  /\ pc = "sweep"
  /\ sweepIdx <= Len(enrichedTrades)
  /\ LET i == chronological(enrichedTrades)[sweepIdx]
         trade == enrichedTrades[i]
         st == [t |-> enrichedTrades, ok |-> TRUE]
         res == IF trade.side = "BUY" THEN SweepBuy(st, i, pools[trade.asset])
                ELSE SweepSell(st, i, pools[trade.asset])
         pools1 == [pools EXCEPT ![trade.asset] = res.pool]
     IN /\ enrichedTrades' = res.t
        /\ pools' = pools1
        /\ IF res.ok
             THEN /\ pc' = "sweep"
                  /\ sweepIdx' = sweepIdx + 1
                  /\ poolTrace' = Append(poolTrace, pools1)
                  /\ closingSnapshot' = IF SnapshotDue(trade, snapshotAt)
                                          THEN <<clonePoolState(pools1)>>
                                          ELSE closingSnapshot
             ELSE /\ pc' = "failed"
                  /\ UNCHANGED <<sweepIdx, poolTrace, closingSnapshot>>
  /\ UNCHANGED <<trades, assetIdx, snapshotAt, windowStart, windowEnd, report>>

(* line 253-300: the fallback snapshot and the report *)
FinalSnapshot(snapshot, map) == IF snapshot = Null THEN clonePoolState(map) ELSE snapshot[1]

Report ==
  /\ pc = "sweep"
  /\ sweepIdx > Len(enrichedTrades)
  /\ \E w \in Windows :
       /\ windowStart' = w[1]
       /\ windowEnd' = w[2]
       /\ closingSnapshot' = <<FinalSnapshot(closingSnapshot, pools)>>
       /\ report' = <<BuildReport(enrichedTrades, FinalSnapshot(closingSnapshot, pools), w[1], w[2])>>
  /\ pc' = "done"
  /\ UNCHANGED <<trades, enrichedTrades, assetIdx, sweepIdx, pools, snapshotAt, poolTrace>>

NextHmrc ==
  \/ Enrich /\ UNCHANGED <<ledgerVars, listVars>>
  \/ SameDayStep /\ UNCHANGED <<ledgerVars, listVars>>
  \/ ThirtyDayStep /\ UNCHANGED <<ledgerVars, listVars>>
  \/ BeginSweep /\ UNCHANGED <<ledgerVars, listVars>>
  \/ SweepStep /\ UNCHANGED <<ledgerVars, listVars>>
  \/ Report /\ UNCHANGED <<ledgerVars, listVars>>

SpecHmrc == InitHmrc /\ [][NextHmrc]_vars

(* computeHmrc as a function of its arguments: the same steps, run to the end *)
RECURSIVE SameDayAll(_, _)
SameDayAll(st, order) ==
  IF order = <<>> \/ ~st.ok THEN st
  ELSE SameDayAll(matchSameDay(st, Head(order)), Tail(order))

RECURSIVE ThirtyDayAll(_, _)
ThirtyDayAll(st, order) ==
  IF order = <<>> \/ ~st.ok THEN st
  ELSE ThirtyDayAll(matchThirtyDay(st, Head(order)), Tail(order))

(* the sweep from position k of the chronological order; sw is
   [t, ok, pools, snapshot] *)
RECURSIVE SweepAll(_, _, _, _)
SweepAll(sw, order, k, at) ==
  IF k > Len(order) \/ ~sw.ok THEN sw
  ELSE
    LET i == order[k]
        trade == sw.t[i]
        st == [t |-> sw.t, ok |-> TRUE]
        res == IF trade.side = "BUY" THEN SweepBuy(st, i, sw.pools[trade.asset])
               ELSE SweepSell(st, i, sw.pools[trade.asset])
        pools1 == [sw.pools EXCEPT ![trade.asset] = res.pool]
    IN SweepAll([t |-> res.t, ok |-> res.ok, pools |-> pools1,
                 snapshot |-> IF res.ok /\ SnapshotDue(trade, at)
                                THEN <<clonePoolState(pools1)>>
                                ELSE sw.snapshot],
                order, k + 1, at)

(* line 196: the enriched trades *)
Enriched(input) == [i \in 1..Len(input) |-> ensureEnriched(input[i])]

(* line 206-207: the two matching passes *)
Matched(t0) ==
  ThirtyDayAll(SameDayAll([t |-> t0, ok |-> TRUE], AssetOrder(t0)), AssetOrder(t0))

(* line 209-252: the sweep over the matched trades *)
Swept(st, at) ==
  SweepAll([t |-> st.t, ok |-> st.ok, pools |-> EmptyPools, snapshot |-> Null],
           chronological(st.t), 1, at)

(* line 253-300: the report *)
Reported(sw, ws, we) ==
  IF ~sw.ok THEN [ok |-> FALSE, report |-> Null]
  ELSE [ok |-> TRUE,
        report |-> <<BuildReport(sw.t, FinalSnapshot(sw.snapshot, sw.pools), ws, we)>>]

(* [ok, report]; ok is FALSE when the computation throws *)
computeHmrc(input, at, ws, we) ==
  IF \E i \in 1..Len(input) : ~Enrichable(input[i]) THEN [ok |-> FALSE, report |-> Null]
  ELSE Reported(Swept(Matched(Enriched(input)), at), ws, we)

(* computeHmrc over trades that may lack their derived valuation *)
MaxRaw == 3
DerivedKinds == {"full", "noPerUnit", "none"}

RawTrade(i, ts, side, kind) ==
  LET full == InputTrade(i, ts, "BTC", side, 1)
  IN IF kind = "full" THEN full
     ELSE IF kind = "none" THEN Without(full, "derived")
     ELSE [full EXCEPT !.derived = Without(full.derived, "perUnitGBP")]

InitHmrcRaw ==
  /\ pc = "start"
  /\ \E n \in 1..MaxRaw :
       \E f \in [1..n -> {0, DAY_DIFF_LIMIT * TicksPerDay} \X Sides \X DerivedKinds] :
         trades = [i \in 1..n |-> RawTrade(i, f[i][1], f[i][2], f[i][3])]
  /\ enrichedTrades = <<>>
  /\ assetIdx = 1
  /\ sweepIdx = 1
  /\ pools = EmptyPools
  /\ closingSnapshot = Null
  /\ snapshotAt = Undefined
  /\ poolTrace = <<>>
  /\ windowStart = Undefined
  /\ windowEnd = Undefined
  /\ report = Null
  /\ LedgerEmpty
  /\ ListIdle

SpecHmrcRaw == InitHmrcRaw /\ [][NextHmrc]_vars

----------------------------------------------------------------------------
(* TradeLedger: keys and derived values *)

MaxSuffix == 1
MaxStored == 2
PAD_WIDTH == 13

LedgerTs == {1, DAY_DIFF_LIMIT * TicksPerDay}
Suffixes == 1..MaxSuffix
TradeIds == LedgerTs \X Suffixes

(* a record's field is truthy *)
TruthyNum(r, f) == Has(r, f) /\ r[f] # 0
TruthyStr(r, f) == Has(r, f) /\ r[f] # ""
TruthyBool(r, f) == Has(r, f) /\ r[f] = TRUE

(* { ...a, ...b } *)
Spread(a, b) == [f \in DOMAIN a \cup DOMAIN b |-> IF f \in DOMAIN b THEN b[f] ELSE a[f]]

(* ts.toString().padStart(13, '0'): the decimal digits, most significant first *)
RECURSIVE Digits(_, _)
Digits(n, width) == IF width = 0 THEN <<>> ELSE Append(Digits(n \div 10, width - 1), n % 10)

padTs(ts) == Digits(ts, PAD_WIDTH)

(* Europe/London civil date of a tick: day 0 is 6 March 2024 *)
LondonMonth(ts) ==
  LET day == ts \div TicksPerDay
  IN IF day <= 25 THEN 3 ELSE IF day <= 55 THEN 4 ELSE 5
LondonYear(ts) == 2024

(* computeTaxYearLabel: the label YYYY-YY, written as <<YYYY, YY>> *)
computeTaxYearLabel(trade) ==
  LET year == IF LondonMonth(trade.ts) >= 4 THEN LondonYear(trade.ts) ELSE LondonYear(trade.ts) - 1
  IN <<year, (year + 1) % 100>>

(* the day of 6 April of a year, 00:00 Europe/London; day 31 is 6 April 2024
   and 2024 is a leap year *)
AprilSixth(year) == 31 + 365 * (year - 2024) - (IF year < 2024 THEN 1 ELSE 0)

(* taxYearBounds of the label <<YYYY, YY>>: first and last tick *)
taxYearBounds(label) ==
  LET startYear == label[1]
      endYear == (label[1] \div 100) * 100 + label[2]
  IN [start |-> AprilSixth(startYear) * TicksPerDay,
      end |-> AprilSixth(endYear) * TicksPerDay - 1]

PrimaryKey(id) == <<"trade", id>>
AssetKey(trade) == <<"by-asset", trade.asset, padTs(trade.ts), trade.id>>
TaxYearKey(trade) == <<"by-taxyear", computeTaxYearLabel(trade), padTs(trade.ts), trade.id>>

(* fetchFxForDate: the provider's GBP->ZAR rate of the day, FxFails when the
   call throws *)
FxFails == 0
FxRates == {2, 4}
FxAnswers == {FxFails} \cup FxRates

(* convertFeeToGBP(trade.fee, perUnitGBP, trade.fx_gbp_zar, trade.ts):
   [ok |-> FALSE] when the rate lookup throws; defined = FALSE for undefined;
   calls counts the lookups made *)
convertFeeToGBP(trade, perUnitGBP, answer) ==
  LET undef == [ok |-> TRUE, defined |-> FALSE, value |-> RInt(0), calls |-> 0]
      Value(v, c) == [ok |-> TRUE, defined |-> TRUE, value |-> v, calls |-> c]
  IN IF ~Has(trade, "fee") THEN undef
     ELSE IF trade.fee.currency = "GBP" THEN Value(RInt(trade.fee.amount), 0)
     ELSE IF trade.fee.currency = "ASSET"
       THEN Value(RMul(RInt(trade.fee.amount), perUnitGBP), 0)
     ELSE IF trade.fee.currency = "ZAR"
       THEN IF ~TruthyNum(trade, "fx_gbp_zar")
              THEN IF answer = FxFails
                     THEN [ok |-> FALSE, defined |-> FALSE, value |-> RInt(0), calls |-> 1]
                     ELSE Value(Rat(trade.fee.amount, answer), 1)
              ELSE Value(Rat(trade.fee.amount, trade.fx_gbp_zar), 0)
     ELSE undef

(* resolveDerived(trade), answer being what the provider says if it is asked:
   [ok |-> FALSE] when it throws ('GBP valuation required', or a failed
   lookup); calls counts the lookups made *)
resolveDerived(trade, answer) ==
  IF ~TruthyNum(trade, "priceGBP")
       /\ (~TruthyNum(trade, "priceZAR") \/ ~TruthyNum(trade, "fx_gbp_zar"))
    THEN [ok |-> FALSE, trade |-> trade, calls |-> 0]
    ELSE
      LET lookup == ~TruthyNum(trade, "priceGBP") /\ TruthyNum(trade, "priceZAR")
                      /\ ~TruthyNum(trade, "fx_gbp_zar")
      IN IF lookup /\ answer = FxFails
           THEN [ok |-> FALSE, trade |-> trade, calls |-> 1]
           ELSE
             LET priced == IF lookup THEN Spread(trade, [fx_gbp_zar |-> answer]) ELSE trade
                 fxSource == IF lookup THEN "FRANKFURTER"
                             ELSE IF TruthyNum(trade, "fx_gbp_zar") THEN "USER" ELSE "NONE"
                 perUnitGBP == IF Has(priced, "priceGBP") THEN RInt(priced.priceGBP)
                               ELSE Rat(priced.priceZAR, priced.fx_gbp_zar)
                 proceeds == RMul(perUnitGBP, RInt(priced.quantity))
                 fee == convertFeeToGBP(priced, perUnitGBP, answer)
                 derived == [perUnitGBP |-> perUnitGBP,
                             gbpProceedsOrCost |-> proceeds,
                             fxSource |-> fxSource]
                 calls == (IF lookup THEN 1 ELSE 0) + fee.calls
             IN IF ~fee.ok THEN [ok |-> FALSE, trade |-> trade, calls |-> calls]
                ELSE [ok |-> TRUE,
                      trade |-> Spread(priced,
                                  [derived |-> IF fee.defined
                                                 THEN Spread(derived, [feeGBP |-> fee.value])
                                                 ELSE derived]),
                      calls |-> calls]

(* the answers the provider can give while trade is resolved: one is enough
   when neither line 335 nor line 319 can ask it *)
FxAnswersFor(trade) ==
  IF ~TruthyNum(trade, "fx_gbp_zar")
       /\ \/ ~TruthyNum(trade, "priceGBP") /\ TruthyNum(trade, "priceZAR")
          \/ Has(trade, "fee") /\ trade.fee.currency = "ZAR"
    THEN FxAnswers ELSE {FxFails}

----------------------------------------------------------------------------
(* TradeLedger storage operations; st is [store, byAsset, byTaxYear] *)

Storage == [store |-> store, byAsset |-> byAssetIdx, byTaxYear |-> byTaxYearIdx]

StoragePut(map, id, trade) ==
  [k \in DOMAIN map \cup {id} |-> IF k = id THEN trade ELSE map[k]]
StorageDelete(map, id) == [k \in DOMAIN map \ {id} |-> map[k]]

(* deleteTrade without the test of trade.locked *)
deleteTradeIgnoringLock(st, id) ==
  IF id \notin DOMAIN st.store THEN [ok |-> TRUE, st |-> st]
  ELSE [ok |-> TRUE,
        st |-> [store |-> StorageDelete(st.store, id),
                byAsset |-> st.byAsset \ {AssetKey(st.store[id])},
                byTaxYear |-> st.byTaxYear \ {TaxYearKey(st.store[id])}]]

(* deleteTrade: [ok |-> FALSE] when it throws 'Trade locked' *)
deleteTrade(st, id) ==
  IF id \notin DOMAIN st.store THEN [ok |-> TRUE, st |-> st]
  ELSE IF TruthyBool(st.store[id], "locked") THEN [ok |-> FALSE, st |-> st]
  ELSE [ok |-> TRUE,
        st |-> [store |-> StorageDelete(st.store, id),
                byAsset |-> st.byAsset \ {AssetKey(st.store[id])},
                byTaxYear |-> st.byTaxYear \ {TaxYearKey(st.store[id])}]]

(* putTrade(trade, previous); previous = <<>> when the argument is omitted *)
putTrade(st, trade, previous) ==
  LET removed == IF previous # <<>> /\ previous[1].id # trade.id
                   THEN deleteTrade(st, previous[1].id)
                   ELSE [ok |-> TRUE, st |-> st]
  IN IF ~removed.ok THEN removed
     ELSE [ok |-> TRUE,
           st |-> [store |-> StoragePut(removed.st.store, trade.id, trade),
                   byAsset |-> removed.st.byAsset \cup {AssetKey(trade)},
                   byTaxYear |-> removed.st.byTaxYear \cup {TaxYearKey(trade)}]]

(* lockTrade that also stamps the record *)
lockTradeStamping(st, id) ==
  IF id \in DOMAIN st.store
    THEN putTrade(st, Spread(st.store[id], [locked |-> TRUE, notes |-> "locked"]),
                  <<Spread(st.store[id], [locked |-> TRUE, notes |-> "locked"])>>).st
    ELSE st

lockTrade(st, id) ==
  IF id \in DOMAIN st.store
    THEN putTrade(st, Spread(st.store[id], [locked |-> TRUE]),
                  <<Spread(st.store[id], [locked |-> TRUE])>>).st
    ELSE st

RECURSIVE lockAll(_, _)
lockAll(st, ids) ==
  IF ids = <<>> THEN st ELSE lockAll(lockTrade(st, Head(ids)), Tail(ids))

Commit(st, route, status) ==
  /\ store' = st.store
  /\ byAssetIdx' = st.byAsset
  /\ byTaxYearIdx' = st.byTaxYear
  /\ response' = [route |-> route, status |-> status]
  /\ pending' = pending

----------------------------------------------------------------------------
(* Request bodies *)

Extend(p, f, v) == [g \in DOMAIN p \cup {f} |-> IF g = f THEN v ELSE p[g]]

FieldValues(f) ==
  CASE f = "ts" -> LedgerTs
    [] f = "asset" -> InputAssets
    [] f = "side" -> {"BUY"}
    [] f = "quantity" -> {1}
    [] f = "priceGBP" -> {2}
    [] f = "locked" -> {TRUE}

RECURSIVE Payloads(_)
Payloads(F) ==
  IF F = {} THEN {<<>>}
  ELSE LET f == CHOOSE g \in F : TRUE
           rest == Payloads(F \ {f})
       IN rest \cup {Extend(p, f, v) : p \in rest, v \in FieldValues(f)}

CreateFields == {"ts", "asset", "side", "quantity", "priceGBP"}
FullBodies == {p \in Payloads(CreateFields) : DOMAIN p = CreateFields}
(* bodies with all the fields, and one body for each field left out *)
CreateBodies ==
  FullBodies \cup {Without(CHOOSE p \in FullBodies : TRUE, f) : f \in CreateFields}
(* bodies that change at most one field, and bodies that name an id *)
UpdateBodies ==
  {p \in Payloads({"ts", "asset", "locked"}) : Cardinality(DOMAIN p) <= 1}
    \cup {[id |-> i] : i \in TradeIds}
LockBodies == {<<>>} \cup {<<id>> : id \in TradeIds}
               \cup {<<p[1], p[2]>> : p \in {q \in TradeIds \X TradeIds : q[1] # q[2]}}

----------------------------------------------------------------------------
(* TradeLedger.fetch: one action per route, each request handled whole *)

(* the PUT route's payload keeping an id given in the body *)
PutPayloadOfBody(id, body) == Spread([id |-> id], body)

(* the PUT route's payload: the body with payload.id = id *)
PutPayload(id, body) == Spread(body, [id |-> id])

(* POST /trades with this body, the id drawing suffix sfx *)
PostTrades(payload, sfx, answer) ==
  IF ~TruthyNum(payload, "ts") \/ ~TruthyStr(payload, "asset")
       \/ ~TruthyStr(payload, "side") \/ ~TruthyNum(payload, "quantity")
    THEN Commit(Storage, "POST /trades", 400)
    ELSE
      LET id == <<payload.ts, sfx>>
          resolved == resolveDerived(Spread(payload, [id |-> id]), answer)
      IN /\ id \notin DOMAIN store
         /\ Cardinality(DOMAIN store) < MaxStored
         /\ IF ~resolved.ok THEN Commit(Storage, "POST /trades", 500)
            ELSE Commit(putTrade(Storage, resolved.trade, <<>>).st, "POST /trades", 201)

(* PUT /trades/:id storing the merged trade before it is resolved *)
PutTradesWriteFirst(id, body, answer) ==
  LET payload == Spread(body, [id |-> id])
  IN IF id \notin DOMAIN store THEN Commit(Storage, "PUT /trades/:id", 404)
     ELSE IF TruthyBool(store[id], "locked") THEN Commit(Storage, "PUT /trades/:id", 400)
     ELSE
       LET merged == Spread(store[id], payload)
           early == putTrade(Storage, merged, <<store[id]>>)
           resolved == resolveDerived(merged, answer)
       IN IF ~resolved.ok THEN Commit(early.st, "PUT /trades/:id", 500)
          ELSE Commit(putTrade(early.st, resolved.trade, <<store[id]>>).st,
                      "PUT /trades/:id", 200)

(* PUT /trades/:id with this body *)
PutTrades(id, body, answer) ==
  LET payload == PutPayload(id, body)
  IN IF id \notin DOMAIN store THEN Commit(Storage, "PUT /trades/:id", 404)
     ELSE IF TruthyBool(store[id], "locked") THEN Commit(Storage, "PUT /trades/:id", 400)
     ELSE
       LET resolved == resolveDerived(Spread(store[id], payload), answer)
           written == putTrade(Storage, resolved.trade, <<store[id]>>)
       IN IF ~resolved.ok \/ ~written.ok THEN Commit(Storage, "PUT /trades/:id", 500)
          ELSE Commit(written.st, "PUT /trades/:id", 200)

(* DELETE /trades/:id *)
DeleteTrades(id) ==
  LET removed == deleteTrade(Storage, id)
  IN IF removed.ok THEN Commit(removed.st, "DELETE /trades/:id", 200)
     ELSE Commit(Storage, "DELETE /trades/:id", 500)

(* POST /trades/lock with body { ids } *)
PostTradesLock(ids) == Commit(lockAll(Storage, ids), "POST /trades/lock", 200)

(* GET /trades/:id *)
GetTrades(id) ==
  Commit(Storage, "GET /trades/:id", IF id \in DOMAIN store THEN 200 ELSE 404)

(* the trade a PUT resolves, when it gets that far *)
Merged(id, body) ==
  IF id \in DOMAIN store THEN Spread(store[id], PutPayload(id, body))
  ELSE PutPayload(id, body)

handleCreate ==
  \E payload \in CreateBodies : \E sfx \in Suffixes :
    \E answer \in FxAnswersFor(payload) : PostTrades(payload, sfx, answer)

handleUpdate ==
  \E id \in TradeIds : \E body \in UpdateBodies :
    \E answer \in FxAnswersFor(Merged(id, body)) : PutTrades(id, body, answer)

handleDelete == \E id \in TradeIds : DeleteTrades(id)

handleLock == \E ids \in LockBodies : PostTradesLock(ids)

handleGet == \E id \in TradeIds : GetTrades(id)

HmrcIdle ==
  /\ pc = "idle"
  /\ trades = <<>>
  /\ enrichedTrades = <<>>
  /\ assetIdx = 1
  /\ sweepIdx = 1
  /\ pools = EmptyPools
  /\ closingSnapshot = Null
  /\ snapshotAt = Undefined
  /\ poolTrace = <<>>
  /\ windowStart = Undefined
  /\ windowEnd = Undefined
  /\ report = Null

Init == LedgerEmpty /\ HmrcIdle /\ ListIdle

Next ==
  \/ handleCreate /\ UNCHANGED <<hmrcVars, listVars>>
  \/ handleUpdate /\ UNCHANGED <<hmrcVars, listVars>>
  \/ handleDelete /\ UNCHANGED <<hmrcVars, listVars>>
  \/ handleLock /\ UNCHANGED <<hmrcVars, listVars>>
  \/ handleGet /\ UNCHANGED <<hmrcVars, listVars>>

Spec == Init /\ [][Next]_vars

----------------------------------------------------------------------------
(* The ledger driven with valuation inputs: ZAR prices, rates and fees *)

Fee(amount, currency) == [amount |-> amount, currency |-> currency]

(* a body with the required fields and no valuation input *)
BareBody == [ts |-> 1, asset |-> "BTC", side |-> "SELL", quantity |-> 1]

ValuationInputs ==
  { <<>>,
    [priceGBP |-> 2],
    [priceZAR |-> 4],
    [priceZAR |-> 4, fx_gbp_zar |-> 2],
    [priceGBP |-> 2, fee |-> Fee(4, "ZAR")],
    [priceGBP |-> 2, fee |-> Fee(4, "ZAR"), fx_gbp_zar |-> 2],
    [priceGBP |-> 2, fee |-> Fee(1, "GBP")],
    [priceGBP |-> 2, fee |-> Fee(1, "ASSET")] }

FxCreateBodies == {Spread(BareBody, v) : v \in ValuationInputs}

FxUpdateBodies ==
  { <<>>, [priceGBP |-> 0], [priceZAR |-> 4], [fx_gbp_zar |-> 2],
    [fee |-> Fee(4, "ZAR")], [quantity |-> 2] }

handleCreateFx ==
  \E payload \in FxCreateBodies : \E sfx \in Suffixes :
    \E answer \in FxAnswersFor(payload) : PostTrades(payload, sfx, answer)

handleUpdateFx ==
  \E id \in TradeIds : \E body \in FxUpdateBodies :
    \E answer \in FxAnswersFor(Merged(id, body)) : PutTrades(id, body, answer)

NextFx ==
  \/ handleCreateFx /\ UNCHANGED <<hmrcVars, listVars>>
  \/ handleUpdateFx /\ UNCHANGED <<hmrcVars, listVars>>
  \/ handleDelete /\ UNCHANGED <<hmrcVars, listVars>>

SpecFx == Init /\ [][NextFx]_vars

----------------------------------------------------------------------------
(* GET /trades: listTrades over the primary index, and the paging client *)

MaxListed == 4
MaxLimit == 2
PAGE_FACTOR == 3

(* order of the keys trade:<ts>-<suffix>, timestamps being of equal width *)
KeyLess(a, b) == a[1] < b[1] \/ (a[1] = b[1] /\ a[2] < b[2])

(* the keys of a set, largest first *)
RECURSIVE Descending(_)
Descending(S) ==
  IF S = {} THEN <<>>
  ELSE LET top == CHOOSE k \in S : \A o \in S \ {k} : KeyLess(o, k)
       IN <<top>> \o Descending(S \ {top})

Take(seq, n) == SubSeq(seq, 1, Min(n, Len(seq)))

(* storage.list({ prefix: 'trade:', reverse: true, startAfter, limit }):
   startAfter is the exclusive smallest key whatever the direction, reverse
   only makes the order descending, and limit keeps the first keys of that
   order *)
StorageList(map, startAfter, pageLimit) ==
  LET inRange == {k \in DOMAIN map : startAfter = Null \/ KeyLess(startAfter[1], k)}
  IN Take(Descending(inRange), pageLimit)

matchesFilters(trade, f) ==
  /\ ~(TruthyStr(f, "asset") /\ trade.asset # f.asset)
  /\ ~(TruthyStr(f, "side") /\ trade.side # f.side)
  /\ ~(TruthyNum(f, "from") /\ trade.ts < f.from)
  /\ ~(TruthyNum(f, "to") /\ trade.ts > f.to)

(* line 523-532: the for loop over one page; sc is [result, lastKey, startAfter] *)
RECURSIVE ScanPage(_, _, _, _, _, _)
ScanPage(map, page, i, sc, f, lim) ==
  IF i > Len(page) THEN sc
  ELSE
    LET key == page[i]
        seen == [sc EXCEPT !.lastKey = <<key>>, !.startAfter = <<key>>]
    IN IF matchesFilters(map[key], f)
         THEN LET pushed == [seen EXCEPT !.result = Append(@, key)]
              IN IF Len(pushed.result) = lim THEN pushed
                 ELSE ScanPage(map, page, i + 1, pushed, f, lim)
         ELSE ScanPage(map, page, i + 1, seen, f, lim)

(* line 518-536: the while loop *)
RECURSIVE ListLoop(_, _, _, _)
ListLoop(map, sc, f, lim) ==
  IF ~(Len(sc.result) < lim) THEN sc
  ELSE
    LET pageSize == lim * PAGE_FACTOR
        page == StorageList(map, sc.startAfter, pageSize)
    IN IF Len(page) = 0 THEN sc
       ELSE LET scanned == ScanPage(map, page, 1, sc, f, lim)
            IN IF Len(page) < pageSize THEN scanned
               ELSE ListLoop(map, scanned, f, lim)

(* listTrades: the ids of the returned trades, and nextCursor *)
listTrades(map, f, lim, c) ==
  LET sc == ListLoop(map, [result |-> <<>>, lastKey |-> Null, startAfter |-> c], f, lim)
  IN [trades |-> sc.result,
      nextCursor |-> IF Len(sc.result) = lim /\ sc.lastKey # Null THEN sc.lastKey ELSE Null]

(* handleList: the TradeListResponse *)
handleList(map, f, lim, c) ==
  LET listed == listTrades(map, f, lim, c)
  IN [count |-> Len(listed.trades), trades |-> listed.trades, nextCursor |-> listed.nextCursor]

(* the stored trades that match the filters *)
Matching(map, f) == {id \in DOMAIN map : matchesFilters(map[id], f)}

(* useTradesApi.load(reset) *)
load(reset) ==
  LET asked == IF reset THEN Null ELSE cursor
      page == handleList(store, filters, limit, asked)
  IN /\ clientState' = [trades |-> IF reset THEN page.trades
                                   ELSE clientState.trades \o page.trades,
                        status |-> "ready",
                        hasMore |-> page.nextCursor # Null]
     /\ cursor' = page.nextCursor
     /\ lastList' = <<[cursor |-> asked, page |-> page]>>
     /\ steady' = IF reset THEN Matching(store, filters) ELSE steady
     /\ UNCHANGED <<filters, limit>>

(* the first load on mount, and refresh *)
Refresh == load(TRUE)

(* loadMore, offered while hasMore *)
LoadMore == clientState.hasMore /\ load(FALSE)

(* a ledger of n trades created at the timestamps 1..n *)
ListedTrade(ts, side) ==
  resolveDerived([id |-> <<ts, 1>>, ts |-> ts, asset |-> "BTC", side |-> side,
                  quantity |-> 1, priceGBP |-> 2], FxFails).trade

ListFilters == {<<>>, [side |-> "SELL"], [from |-> 2]}

InitList ==
  /\ \E n \in 0..MaxListed : \E sides \in [1..n -> Sides] :
       LET rows == {ListedTrade(ts, sides[ts]) : ts \in 1..n}
       IN /\ store = [id \in {r.id : r \in rows} |-> ListedTrade(id[1], sides[id[1]])]
          /\ byAssetIdx = {AssetKey(r) : r \in rows}
          /\ byTaxYearIdx = {TaxYearKey(r) : r \in rows}
  /\ response = [route |-> "none", status |-> 0]
  /\ pending = <<>>
  /\ filters \in ListFilters
  /\ limit \in 1..MaxLimit
  /\ cursor = Null
  /\ clientState = [trades |-> <<>>, status |-> "idle", hasMore |-> FALSE]
  /\ lastList = Null
  /\ steady = {}
  /\ HmrcIdle

NextList ==
  \/ Refresh /\ UNCHANGED <<hmrcVars, ledgerVars>>
  \/ LoadMore /\ UNCHANGED <<hmrcVars, ledgerVars>>

SpecList == InitList /\ [][NextList]_vars

----------------------------------------------------------------------------
(* The pool arithmetic of the sweep in binary floating point: every result is
   rounded to the nearest number of MantissaBits significant bits, ties to
   even, as an IEEE 754 double is to 53 *)

MantissaBits == 3
MaxPoolQty == 4
MaxPrice == 3

RECURSIVE Pow2(_)
Pow2(k) == IF k = 0 THEN 1 ELSE 2 * Pow2(k - 1)

(* a positive rational rounded to MantissaBits significant bits *)
RECURSIVE RoundPositive(_)
RoundPositive(x) ==
  IF x.n >= Pow2(MantissaBits) * x.d
    THEN RMul(RInt(2), RoundPositive(Rat(x.n, 2 * x.d)))
  ELSE IF x.n < Pow2(MantissaBits - 1) * x.d
    THEN RDivInt(RoundPositive(Rat(2 * x.n, x.d)), 2)
  ELSE
    LET whole == x.n \div x.d
        rest == x.n - whole * x.d
        up == 2 * rest > x.d \/ (2 * rest = x.d /\ whole % 2 = 1)
    IN RInt(IF up THEN whole + 1 ELSE whole)

Fl(x) ==
  IF x.n = 0 THEN RInt(0)
  ELSE IF x.n > 0 THEN RoundPositive(x)
  ELSE RSub(RInt(0), RoundPositive(RSub(RInt(0), x)))

FlAdd(x, y) == Fl(RAdd(x, y))
FlSub(x, y) == Fl(RSub(x, y))
FlMul(x, y) == Fl(RMul(x, y))
FlDivInt(x, k) == Fl(RDivInt(x, k))

(* line 72-78 and 221-228: a buy of qty units bought at price per unit, no
   fee, none of it matched before the sweep, enters the pool *)
FlPoolAfterBuy(pool, qty, price) ==
  LET acquisitionCost == Fl(RInt(price * qty))
      perUnitCost == FlDivInt(acquisitionCost, qty)
      cost == FlMul(RInt(qty), perUnitCost)
  IN [totalQty |-> pool.totalQty + qty,
      totalCostGBP |-> FlAdd(pool.totalCostGBP, cost)]

(* line 229-240: a sell with qty units left draws on the pool *)
FlPoolAfterSell(pool, qty) ==
  LET availableQty == pool.totalQty
      avgCost == IF availableQty > 0 THEN FlDivInt(pool.totalCostGBP, availableQty)
                 ELSE RInt(0)
      matched == Min(qty, availableQty)
      allowable == FlMul(RInt(matched), avgCost)
  IN IF matched > 0
       THEN [totalQty |-> pool.totalQty - matched,
             totalCostGBP |-> FlSub(pool.totalCostGBP, allowable)]
       ELSE pool

FlSweepBuy(asset, qty, price) ==
  /\ pools[asset].totalQty + qty <= MaxPoolQty
  /\ pools' = [pools EXCEPT ![asset] = FlPoolAfterBuy(@, qty, price)]
  /\ UNCHANGED <<pc, trades, enrichedTrades, assetIdx, sweepIdx, closingSnapshot,
                 snapshotAt, poolTrace, windowStart, windowEnd, report>>

FlSweepSell(asset, qty) ==
  /\ pools' = [pools EXCEPT ![asset] = FlPoolAfterSell(@, qty)]
  /\ UNCHANGED <<pc, trades, enrichedTrades, assetIdx, sweepIdx, closingSnapshot,
                 snapshotAt, poolTrace, windowStart, windowEnd, report>>

NextFl ==
  \/ /\ \E asset \in InputAssets : \E qty \in 1..MaxQty : \E price \in 1..MaxPrice :
          FlSweepBuy(asset, qty, price)
     /\ UNCHANGED <<ledgerVars, listVars>>
  \/ /\ \E asset \in InputAssets : \E qty \in 1..(MaxPoolQty + 1) : FlSweepSell(asset, qty)
     /\ UNCHANGED <<ledgerVars, listVars>>

SpecFl == Init /\ [][NextFl]_vars

----------------------------------------------------------------------------
(* The list client while the ledger takes requests between its calls *)

PagingBodies ==
  {[ts |-> ts, asset |-> "BTC", side |-> "BUY", quantity |-> 1, priceGBP |-> 2] :
     ts \in LedgerTs}
PagingUpdateBodies == {[ts |-> ts] : ts \in LedgerTs} \cup {[side |-> "SELL"]}
PagingFilters == {<<>>, [side |-> "SELL"]}

(* the trades still stored and matching after the request *)
StillSteady ==
  steady' = {id \in steady : id \in DOMAIN store' /\ matchesFilters(store'[id], filters)}

Mutation == StillSteady /\ UNCHANGED <<filters, limit, cursor, clientState, lastList>>

handleCreatePaging ==
  \E payload \in PagingBodies : \E sfx \in Suffixes : PostTrades(payload, sfx, FxFails)

handleUpdatePaging ==
  \E id \in TradeIds : \E body \in PagingUpdateBodies : PutTrades(id, body, FxFails)

handleLockOne == \E id \in TradeIds : PostTradesLock(<<id>>)

InitPaging ==
  /\ LedgerEmpty
  /\ HmrcIdle
  /\ filters \in PagingFilters
  /\ limit \in 1..MaxLimit
  /\ cursor = Null
  /\ clientState = [trades |-> <<>>, status |-> "idle", hasMore |-> FALSE]
  /\ lastList = Null
  /\ steady = {}

NextPaging ==
  \/ handleCreatePaging /\ Mutation /\ UNCHANGED hmrcVars
  \/ handleUpdatePaging /\ Mutation /\ UNCHANGED hmrcVars
  \/ handleDelete /\ Mutation /\ UNCHANGED hmrcVars
  \/ handleLockOne /\ Mutation /\ UNCHANGED hmrcVars
  \/ Refresh /\ UNCHANGED <<hmrcVars, ledgerVars>>
  \/ LoadMore /\ UNCHANGED <<hmrcVars, ledgerVars>>

SpecPaging == InitPaging /\ [][NextPaging]_vars

----------------------------------------------------------------------------
(* handleUpdate with its suspension in the FX lookup: the requests that
   arrive while fetchFxForDate is awaited are handled before it resumes *)

(* resolveDerived awaits fetchFxForDate for this trade (line 319, line 335) *)
AwaitsFx(trade) ==
  /\ ~TruthyNum(trade, "fx_gbp_zar")
  /\ \/ ~TruthyNum(trade, "priceGBP") /\ TruthyNum(trade, "priceZAR")
     \/ Has(trade, "fee") /\ trade.fee.currency = "ZAR"

(* line 461-471: handleUpdate up to the await of the lookup *)
UpdateBegin(id, body) ==
  /\ pending = <<>>
  /\ IF id \in DOMAIN store /\ ~TruthyBool(store[id], "locked") /\ AwaitsFx(Merged(id, body))
       THEN /\ pending' = <<[id |-> id, existing |-> store[id], merged |-> Merged(id, body)]>>
            /\ UNCHANGED <<store, byAssetIdx, byTaxYearIdx, response>>
       ELSE PutTrades(id, body, FxFails)

(* line 471-473: the lookup has answered; resolveDerived ends and putTrade
   writes the trade resolved from what was read before the await *)
UpdateFinish(answer) ==
  /\ pending # <<>>
  /\ LET resolved == resolveDerived(pending[1].merged, answer)
         written == putTrade(Storage, resolved.trade, <<pending[1].existing>>)
         st == IF resolved.ok /\ written.ok THEN written.st ELSE Storage
     IN /\ store' = st.store
        /\ byAssetIdx' = st.byAsset
        /\ byTaxYearIdx' = st.byTaxYear
        /\ response' = [route |-> "PUT /trades/:id",
                        status |-> IF resolved.ok /\ written.ok THEN 200 ELSE 500]
  /\ pending' = <<>>

(* trades whose fee is in ZAR, and updates of them *)
AsyncBodies ==
  {Spread(BareBody, [ts |-> ts, priceGBP |-> 2, fee |-> Fee(4, "ZAR")]) : ts \in LedgerTs}
AsyncUpdateBodies == {<<>>, [quantity |-> 2], [fx_gbp_zar |-> 2]}

handleCreateAsync ==
  \E payload \in AsyncBodies : \E sfx \in Suffixes : \E answer \in FxAnswers :
    PostTrades(payload, sfx, answer)

handleUpdateBegin == \E id \in TradeIds : \E body \in AsyncUpdateBodies : UpdateBegin(id, body)

handleUpdateFinish == \E answer \in FxAnswers : UpdateFinish(answer)

NextAsync ==
  \/ handleCreateAsync /\ UNCHANGED <<hmrcVars, listVars>>
  \/ handleUpdateBegin /\ UNCHANGED <<hmrcVars, listVars>>
  \/ handleUpdateFinish /\ UNCHANGED <<hmrcVars, listVars>>
  \/ handleDelete /\ UNCHANGED <<hmrcVars, listVars>>
  \/ handleLock /\ UNCHANGED <<hmrcVars, listVars>>

SpecAsync == Init /\ [][NextAsync]_vars

----------------------------------------------------------------------------
(* GET /tax/summary and GET /tax/preview *)

MaxHistory == 2

(* the keys of a set, smallest first *)
RECURSIVE Ascending(_)
Ascending(S) ==
  IF S = {} THEN <<>>
  ELSE LET low == CHOOSE k \in S : \A o \in S \ {k} : KeyLess(k, o)
       IN <<low>> \o Ascending(S \ {low})

(* a stored trade as computeHmrc reads it: the derived amounts, whole numbers
   in this specification, as plain numbers *)
Amounts == {"perUnitGBP", "gbpProceedsOrCost", "feeGBP"}
TradeRead(trade) ==
  [trade EXCEPT !.derived = [f \in DOMAIN trade.derived |->
                               IF f \in Amounts THEN trade.derived[f].n
                               ELSE trade.derived[f]]]

(* loadAllTrades: the records in key order, then sorted by ts *)
loadAllTrades(map) ==
  LET keys == Ascending(DOMAIN map)
      listed == [k \in 1..Len(keys) |-> TradeRead(map[keys[k]])]
      order == SortByTs(listed, Indices(listed))
  IN [k \in 1..Len(order) |-> listed[order[k]]]

(* 30 * 24 * 60 * 60 * 1000 ms *)
ThirtyDays == 30 * TicksPerDay

(* computeWindow: [ok, report, trades], trades being the input it keeps *)
computeWindow(map, from, to) ==
  LET kept == SelectSeq(loadAllTrades(map),
                LAMBDA trade : trade.ts >= from - ThirtyDays /\ trade.ts <= to + ThirtyDays)
      computation == computeHmrc(kept, to, from, to)
  IN [ok |-> computation.ok, report |-> computation.report, trades |-> kept]

(* computeTaxYear *)
computeTaxYear(map, taxYear) ==
  LET bounds == taxYearBounds(taxYear)
      kept == SelectSeq(loadAllTrades(map),
                LAMBDA trade : trade.ts <= bounds.end + ThirtyDays)
      computation == computeHmrc(kept, bounds.end, bounds.start, bounds.end)
  IN [ok |-> computation.ok, report |-> computation.report, trades |-> kept]

Answer(route, computed, from, to) ==
  /\ trades' = computed.trades
  /\ report' = computed.report
  /\ windowStart' = from
  /\ windowEnd' = to
  /\ snapshotAt' = to
  /\ response' = [route |-> route, status |-> IF computed.ok THEN 200 ELSE 500]
  /\ UNCHANGED <<pc, enrichedTrades, assetIdx, sweepIdx, pools, closingSnapshot, poolTrace>>
  /\ UNCHANGED <<store, byAssetIdx, byTaxYearIdx, pending>>

(* GET /tax/preview?from&to, the two dates given as days *)
PreviewDays == {0, 31}
TaxPreview(fromDay, toDay) ==
  LET fromTs == fromDay * TicksPerDay
      toTs == toDay * TicksPerDay + TicksPerDay - 1
  IN Answer("GET /tax/preview", computeWindow(store, fromTs, toTs), fromTs, toTs)

(* GET /tax/summary?taxYear *)
TaxYears == {<<2023, 24>>, <<2024, 25>>}
TaxSummary(taxYear) ==
  Answer("GET /tax/summary", computeTaxYear(store, taxYear),
         taxYearBounds(taxYear).start, taxYearBounds(taxYear).end)

(* the trades of the history: buys at 2, sells at 3, on day 0, day 31, day 61 *)
HistoryTs == {1, 31 * TicksPerDay, 61 * TicksPerDay}
HistoryBodies ==
  {[ts |-> ts, asset |-> "BTC", side |-> side, quantity |-> qty,
    priceGBP |-> IF side = "BUY" THEN 2 ELSE 3] :
     ts \in HistoryTs, side \in Sides, qty \in 1..MaxQty}

handleCreateHistory ==
  /\ Cardinality(DOMAIN store) < MaxHistory
  /\ \E payload \in HistoryBodies : \E sfx \in Suffixes : PostTrades(payload, sfx, FxFails)

handlePreview ==
  \E fromDay \in PreviewDays : \E toDay \in PreviewDays :
    fromDay <= toDay /\ TaxPreview(fromDay, toDay)

handleSummary == \E taxYear \in TaxYears : TaxSummary(taxYear)

NextTax ==
  \/ handleCreateHistory /\ UNCHANGED <<hmrcVars, listVars>>
  \/ handlePreview /\ UNCHANGED listVars
  \/ handleSummary /\ UNCHANGED listVars

SpecTax == Init /\ [][NextTax]_vars

----------------------------------------------------------------------------
(* Vocabulary of the properties of computeHmrc *)

AllRules == {"SAME_DAY", "WITHIN_30_DAYS", "SECTION_104"}

RECURSIVE QtySum(_, _)
QtySum(matches, rules) ==
  IF matches = <<>> THEN 0
  ELSE QtySum(Tail(matches), rules)
       + (IF Head(matches).rule \in rules THEN Head(matches).matchedQty ELSE 0)

LinesOf(trade, rule) == SelectSeq(trade.matches, LAMBDA m : m.rule = rule)

TradeIdx == 1..Len(enrichedTrades)
SellIdx == {i \in TradeIdx : enrichedTrades[i].side = "SELL"}
BuyIdx == {i \in TradeIdx : enrichedTrades[i].side = "BUY"}

(* the pools before and after the k-th step of the sweep *)
PoolsBefore(k) == IF k = 1 THEN EmptyPools ELSE poolTrace[k - 1]
PoolsAfter(k) == poolTrace[k]

(* what a sell still had to draw when the sweep reached it *)
SweepRequest(trade) == trade.quantity - QtySum(trade.matches, {"SAME_DAY", "WITHIN_30_DAYS"})

(* C1: every sell the sweep has processed is matched for its whole quantity,
   unless the pool could not cover what it requested; then an issue is
   recorded, only the pool's quantity is matched under SECTION_104 and the
   part not covered is in no match line. *)
C1_MatchedOrShortfall ==
  \A k \in 1..Len(poolTrace) :
    LET trade == enrichedTrades[chronological(enrichedTrades)[k]]
        q == SweepRequest(trade)
        avail == PoolsBefore(k)[trade.asset].totalQty
    IN trade.side = "SELL" =>
         IF q <= avail
           THEN /\ QtySum(trade.matches, AllRules) = trade.quantity
                /\ trade.issues = <<>>
           ELSE /\ trade.issues # <<>>
                /\ QtySum(trade.matches, {"SECTION_104"}) = avail
                /\ trade.quantity - QtySum(trade.matches, AllRules) = q - avail

(* C2: in every state of the ledger the by-asset keys are exactly the keys
   computed from the asset, timestamp and id of the stored trades, and the
   by-taxyear keys exactly those computed from their tax-year label,
   timestamp and id: no entry of an old asset or timestamp is left behind *)
C2_IndexesAgree ==
  /\ byAssetIdx = {AssetKey(store[id]) : id \in DOMAIN store}
  /\ byTaxYearIdx = {TaxYearKey(store[id]) : id \in DOMAIN store}

Locked(id) == id \in DOMAIN store /\ TruthyBool(store[id], "locked")

(* C3: a request handled while a stored trade is locked leaves that trade's
   record, and both of its index entries, exactly as they were *)
C3_LockedImmutable ==
  [][\A id \in TradeIds :
       Locked(id) =>
         /\ id \in DOMAIN store'
         /\ store'[id] = store[id]
         /\ AssetKey(store[id]) \in byAssetIdx'
         /\ TaxYearKey(store[id]) \in byTaxYearIdx']_vars

(* C3 witness: a PUT has just been refused with 400 while a locked trade is
   stored, which only happens when the PUT was aimed at a locked trade *)
C3_Witness ==
  /\ \E id \in TradeIds : Locked(id)
  /\ response = [route |-> "PUT /trades/:id", status |-> 400]

(* the filter-matching stored trades after the position of cursor c in the
   newest-first order *)
Remaining(c) ==
  {id \in DOMAIN store :
     matchesFilters(store[id], filters) /\ (c = Null \/ KeyLess(id, c[1]))}

(* C4: the last list call returned exactly limit rows and a cursor when more
   than limit matching rows remained after its cursor, and when it returned a
   null cursor it had returned every matching row that remained *)
C4_ListPagination ==
  lastList # Null =>
    LET asked == lastList[1].cursor
        page == lastList[1].page
        returned == {page.trades[i] : i \in 1..Len(page.trades)}
    IN /\ Cardinality(Remaining(asked)) > limit =>
            (Len(page.trades) = limit /\ page.nextCursor # Null)
       /\ page.nextCursor = Null =>
            (Len(page.trades) < limit /\ returned = Remaining(asked)
               /\ Len(page.trades) = Cardinality(Remaining(asked)))

(* C5: when the client has paged until nextCursor is null, the pages it has
   concatenated are the filter-matching stored trades, newest first, each of
   them exactly once *)
C5_PagesExactlyOnce ==
  (clientState.status = "ready" /\ ~clientState.hasMore) =>
    clientState.trades = Descending(Remaining(Null))

(* the record of id and both of its index entries are after the step what
   they were before it *)
Kept(id) ==
  /\ id \in DOMAIN store'
  /\ store'[id] = store[id]
  /\ AssetKey(store[id]) \in byAssetIdx'
  /\ TaxYearKey(store[id]) \in byTaxYearIdx'

StorageUnchanged == UNCHANGED <<store, byAssetIdx, byTaxYearIdx>>

(* C11: a DELETE of a locked trade is answered 400 and leaves the trade's
   record and both of its index entries in place *)
C11_DeleteLocked ==
  [][\A id \in TradeIds :
       (Locked(id) /\ DeleteTrades(id)) => (response'.status = 400 /\ Kept(id))]_vars

(* C11, the part that holds: a DELETE of a locked trade is refused and
   leaves the trade's record and both of its index entries in place *)
C11_DeleteLockedRefused ==
  [][\A id \in TradeIds :
       (Locked(id) /\ DeleteTrades(id)) => (response'.status # 200 /\ Kept(id))]_vars

(* C12: GET, PUT and DELETE of an id that is not stored are each answered
   404 and leave the storage unchanged *)
C12_NotFound ==
  [][\A id \in TradeIds :
       (id \notin DOMAIN store
          /\ \/ GetTrades(id)
             \/ DeleteTrades(id)
             \/ \E body \in UpdateBodies : PutTrades(id, body, FxFails))
       => (response'.status = 404 /\ StorageUnchanged)]_vars

LacksRequired(payload) ==
  \E f \in {"ts", "asset", "side", "quantity"} : f \notin DOMAIN payload

(* no priceGBP, and no priceZAR for which a rate is given or can be looked up *)
LacksValuation(payload) ==
  ~Has(payload, "priceGBP") /\ ~Has(payload, "priceZAR")

(* C13: a POST whose body lacks ts, asset, side or quantity, or lacks the
   valuation inputs, is answered 400 *)
C13_CreateRejected ==
  [][\A payload \in CreateBodies : \A sfx \in Suffixes :
       (PostTrades(payload, sfx, FxFails)
          /\ (LacksRequired(payload) \/ LacksValuation(payload)))
       => response'.status = 400]_vars

(* C13, the part that holds: a POST whose body lacks ts, asset, side or
   quantity is answered 400 *)
C13_MissingFieldRejected ==
  [][\A payload \in CreateBodies : \A sfx \in Suffixes :
       (PostTrades(payload, sfx, FxFails) /\ LacksRequired(payload))
       => response'.status = 400]_vars

(* a create of this body, or an update of id with this body, reaches
   resolveDerived and resolveDerived throws *)
CreateFailsValuation(payload, sfx, answer) ==
  /\ ~LacksRequired(payload)
  /\ PostTrades(payload, sfx, answer)
  /\ ~resolveDerived(Spread(payload, [id |-> <<payload.ts, sfx>>]), answer).ok

UpdateFailsValuation(id, body, answer) ==
  /\ id \in DOMAIN store
  /\ ~Locked(id)
  /\ PutTrades(id, body, answer)
  /\ ~resolveDerived(Merged(id, body), answer).ok

(* C14: a create or an update whose valuation fails, for want of valuation
   inputs or because the rate lookup fails, leaves the primary records and
   both indexes exactly as they were *)
C14_FailedValuationWritesNothing ==
  [][\A answer \in FxAnswers :
       /\ \A payload \in FxCreateBodies : \A sfx \in Suffixes :
            CreateFailsValuation(payload, sfx, answer) => StorageUnchanged
       /\ \A id \in TradeIds : \A body \in FxUpdateBodies :
            UpdateFailsValuation(id, body, answer) => StorageUnchanged]_vars

(* C14 witness: an update of a stored trade whose fee is in ZAR has just
   failed on the rate lookup *)
C14_Witness ==
  /\ response = [route |-> "PUT /trades/:id", status |-> 500]
  /\ \E id \in DOMAIN store :
       /\ Has(store[id], "fee") /\ store[id].fee.currency = "ZAR"
       /\ ~Has(store[id], "fx_gbp_zar")

(* C15: a create priced in ZAR without a rate is accepted: the rate the
   provider gives is stored in fx_gbp_zar, the source is FRANKFURTER and the
   per-unit GBP value is priceZAR / rate; with a rate supplied the source is
   USER and the per-unit value is priceZAR / fx_gbp_zar *)
C15_ZarLookup ==
  [][\A payload \in FxCreateBodies : \A sfx \in Suffixes : \A answer \in FxRates :
       LET id == <<payload.ts, sfx>>
       IN (PostTrades(payload, sfx, answer) /\ ~Has(payload, "priceGBP")
             /\ Has(payload, "priceZAR"))
          => /\ response'.status = 201
             /\ id \in DOMAIN store'
             /\ IF Has(payload, "fx_gbp_zar")
                  THEN /\ store'[id].fx_gbp_zar = payload.fx_gbp_zar
                       /\ store'[id].derived.fxSource = "USER"
                       /\ store'[id].derived.perUnitGBP
                            = Rat(payload.priceZAR, payload.fx_gbp_zar)
                  ELSE /\ store'[id].fx_gbp_zar = answer
                       /\ store'[id].derived.fxSource = "FRANKFURTER"
                       /\ store'[id].derived.perUnitGBP = Rat(payload.priceZAR, answer)]_vars

(* C15, the part that holds: a create priced in ZAR with a rate supplied is
   stored with source USER and per-unit value priceZAR / fx_gbp_zar *)
C15_ZarWithRate ==
  [][\A payload \in FxCreateBodies : \A sfx \in Suffixes : \A answer \in FxAnswers :
       LET id == <<payload.ts, sfx>>
       IN (PostTrades(payload, sfx, answer) /\ ~Has(payload, "priceGBP")
             /\ Has(payload, "priceZAR") /\ Has(payload, "fx_gbp_zar"))
          => /\ response'.status = 201
             /\ store'[id].derived.fxSource = "USER"
             /\ store'[id].derived.perUnitGBP
                  = Rat(payload.priceZAR, payload.fx_gbp_zar)]_vars

(* C16: resolving a stored trade that has a priceGBP again, as a PUT with an
   empty body does, succeeds and yields the derived fields it already has *)
C16_ResolveIdempotent ==
  [][\A id \in TradeIds : \A answer \in FxAnswers :
       (id \in DOMAIN store /\ ~Locked(id) /\ TruthyNum(store[id], "priceGBP")
          /\ PutTrades(id, <<>>, answer))
       => /\ response'.status = 200
          /\ store'[id].derived = store[id].derived]_vars

(* the fields of a stored trade that come from request bodies *)
UserFields(trade) == DOMAIN trade \ {"id", "derived"}

(* C17: a PUT of an absent id is answered 404, a PUT of a locked trade 400,
   and after a successful PUT the stored trade's user-supplied fields are
   exactly the fields of the body, with the body's values *)
C17_FullReplace ==
  [][\A id \in TradeIds : \A body \in UpdateBodies :
       (response'.route = "PUT /trades/:id" /\ PutTrades(id, body, FxFails))
       => /\ id \notin DOMAIN store => response'.status = 404
          /\ Locked(id) => response'.status = 400
          /\ response'.status = 200 =>
               /\ UserFields(store'[id]) = DOMAIN body
               /\ \A f \in DOMAIN body : store'[id][f] = body[f]]_vars

(* C17, the part that holds: a PUT of an absent id is answered 404 and a PUT
   of a locked trade 400 *)
C17_UpdateRefused ==
  [][\A id \in TradeIds : \A body \in UpdateBodies :
       (response'.route = "PUT /trades/:id" /\ PutTrades(id, body, FxFails))
       => /\ id \notin DOMAIN store => response'.status = 404
          /\ Locked(id) => response'.status = 400]_vars

Listed(ids) == {ids[i] : i \in 1..Len(ids)}

(* C18: a lock request succeeds, sets locked = true on each listed trade
   that is stored and changes nothing else: the other fields of the listed
   trades, the trades not listed, the set of stored ids and both indexes
   are what they were *)
C18_LockFrame ==
  [][\A ids \in LockBodies :
       (response'.route = "POST /trades/lock" /\ PostTradesLock(ids))
       => /\ response'.status = 200
          /\ DOMAIN store' = DOMAIN store
          /\ \A id \in DOMAIN store :
               store'[id] = IF id \in Listed(ids)
                              THEN Spread(store[id], [locked |-> TRUE])
                              ELSE store[id]
          /\ byAssetIdx' = byAssetIdx
          /\ byTaxYearIdx' = byTaxYearIdx]_vars

(* C18 witness: a lock request has just been answered and the ledger holds
   a locked trade next to one that was not listed and is still unlocked *)
C18_Witness ==
  /\ response = [route |-> "POST /trades/lock", status |-> 200]
  /\ \E a \in DOMAIN store : \E b \in DOMAIN store :
       Locked(a) /\ ~Locked(b)

Unenriched == \E i \in 1..Len(trades) : ~Enrichable(trades[i])

(* C19: when a trade of the input lacks its derived valuation the
   computation does no matching and returns no report: it stops at the
   enrichment, whatever the trade's side and place in the input *)
C19_UnenrichedIsFatal ==
  Unenriched =>
    /\ pc \in {"start", "failed"}
    /\ enrichedTrades = <<>>
    /\ report = Null

(* C19 witness: the computation has failed on an input whose first trade is
   a valued sell and whose later trade, a buy, has no derived valuation *)
C19_Witness ==
  /\ pc = "failed"
  /\ Len(trades) >= 2
  /\ Enrichable(trades[1]) /\ trades[1].side = "SELL"
  /\ \E i \in 2..Len(trades) : ~Has(trades[i], "derived") /\ trades[i].side = "BUY"

(* the sells of the input, in input order, dated inside the closed window *)
WindowHas(ts) ==
  /\ windowStart = Undefined \/ ts >= windowStart
  /\ windowEnd = Undefined \/ ts <= windowEnd

WindowSells ==
  SelectSeq(enrichedTrades, LAMBDA t : t.side = "SELL" /\ WindowHas(t.ts))

RECURSIVE GainTotal(_, _)
GainTotal(lines, k) ==
  IF k = 0 THEN RInt(0) ELSE RAdd(GainTotal(lines, k - 1), lines[k].gainGBP)

RECURSIVE DisposalTotal(_, _, _)
DisposalTotal(disposals, k, asset) ==
  IF k = 0 THEN RInt(0)
  ELSE RAdd(DisposalTotal(disposals, k - 1, asset),
            IF disposals[k].asset = asset THEN disposals[k].totalGainGBP ELSE RInt(0))

RECURSIVE LinesOfSells(_)
LinesOfSells(sells) ==
  IF sells = <<>> THEN <<>>
  ELSE [k \in 1..Len(Head(sells).matches) |->
          <<Head(sells).id, Head(sells).matches[k]>>] \o LinesOfSells(Tail(sells))

(* C20: the disposals of the report are those of the sells dated inside the
   closed window, its match lines are the lines of those sells, each
   disposal's total gain is the sum of the gains of its lines, each per-asset
   total is the sum of the total gains of the listed disposals of the asset,
   and the overall gain is the sum of the per-asset totals *)
C20_WindowProjection ==
  pc = "done" =>
    LET rep == report[1]
        sells == WindowSells
    IN /\ Len(rep.disposals) = Len(sells)
       /\ \A k \in 1..Len(sells) :
            /\ rep.disposals[k].sellRef = sells[k].id
            /\ rep.disposals[k].matches = sells[k].matches
            /\ rep.disposals[k].totalGainGBP
                 = GainTotal(sells[k].matches, Len(sells[k].matches))
       /\ [k \in 1..Len(rep.matchLines) |->
             <<rep.matchLines[k].sellRef, rep.matchLines[k].line>>] = LinesOfSells(sells)
       /\ \A a \in Assets :
            rep.totals.byAsset[a] = DisposalTotal(rep.disposals, Len(rep.disposals), a)
       /\ rep.totals.overallGainGBP
            = RAdd(RAdd(rep.totals.byAsset["BTC"], rep.totals.byAsset["ETH"]),
                   rep.totals.byAsset["USDT"])

(* C20 witness: a report over a bounded window lists a matched sell dated on
   the last instant of the window and leaves out a sell dated outside it *)
C20_Witness ==
  /\ pc = "done"
  /\ windowEnd # Undefined
  /\ \E k \in 1..Len(report[1].disposals) :
       /\ report[1].disposals[k].ts = windowEnd
       /\ report[1].disposals[k].matches # <<>>
  /\ \E i \in 1..Len(enrichedTrades) :
       /\ enrichedTrades[i].side = "SELL"
       /\ ~WindowHas(enrichedTrades[i].ts)
       /\ \A k \in 1..Len(report[1].disposals) :
            report[1].disposals[k].sellRef # enrichedTrades[i].id

(* C6: every WITHIN_30_DAYS line pairs the sell with a buy of the same asset
   that is strictly later and 1 to 30 London civil days after the sell's day. *)
C6_ThirtyDayWindow ==
  \A i \in SellIdx :
    \A k \in 1..Len(enrichedTrades[i].matches) :
      LET m == enrichedTrades[i].matches[k]
          sell == enrichedTrades[i]
      IN m.rule = "WITHIN_30_DAYS" =>
           \E j \in BuyIdx :
             LET buy == enrichedTrades[j]
                 gap == (buy.ts \div TicksPerDay) - (sell.ts \div TicksPerDay)
             IN /\ buy.id = m.buyRef
                /\ buy.asset = sell.asset
                /\ buy.ts > sell.ts
                /\ gap >= 1
                /\ gap <= 30

(* C6 witness: a WITHIN_30_DAYS line against a buy exactly 30 days later,
   in a run that also holds a buy of that asset 31 days after the sell. *)
C6_Witness ==
  \E i \in SellIdx : \E j \in BuyIdx : \E j2 \in BuyIdx :
    /\ \E k \in 1..Len(enrichedTrades[i].matches) :
         /\ enrichedTrades[i].matches[k].rule = "WITHIN_30_DAYS"
         /\ enrichedTrades[i].matches[k].buyRef = enrichedTrades[j].id
    /\ (enrichedTrades[j].ts \div TicksPerDay) - (enrichedTrades[i].ts \div TicksPerDay) = 30
    /\ enrichedTrades[j2].asset = enrichedTrades[i].asset
    /\ (enrichedTrades[j2].ts \div TicksPerDay) - (enrichedTrades[i].ts \div TicksPerDay) = 31
    /\ enrichedTrades[i].quantity > enrichedTrades[j].quantity
    /\ pc = "done"

(* quantity matched against the buy with id ref by lines of the given rules *)
RECURSIVE QtyAgainst(_, _, _)
QtyAgainst(matches, ref, rules) ==
  IF matches = <<>> THEN 0
  ELSE QtyAgainst(Tail(matches), ref, rules)
       + (IF Head(matches).rule \in rules /\ Head(matches).buyRef = ref
            THEN Head(matches).matchedQty ELSE 0)

RECURSIVE QtyAgainstAll(_, _, _)
QtyAgainstAll(S, ref, rules) ==
  IF S = {} THEN 0
  ELSE LET i == CHOOSE x \in S : TRUE
       IN QtyAgainst(enrichedTrades[i].matches, ref, rules) + QtyAgainstAll(S \ {i}, ref, rules)

BuyMatched(j, rules) == QtyAgainstAll(SellIdx, enrichedTrades[j].id, rules)

RuleRank(rule) == CASE rule = "SAME_DAY" -> 1 [] rule = "WITHIN_30_DAYS" -> 2 [] OTHER -> 3

HasLine(pass) ==
  \E i \in SellIdx : \E k \in 1..Len(enrichedTrades[i].matches) :
    enrichedTrades[i].matches[k].rule = pass

(* C7: same-day matching comes first: no 30-day line exists while the
   same-day pass runs (and no Section 104 line before the sweep), the 30-day
   pass takes from a buy at most what same-day matching left of it, and in
   every disposal SAME_DAY lines precede WITHIN_30_DAYS lines, which precede
   SECTION_104 lines. *)
C7_SameDayFirst ==
  /\ pc \in {"start", "sameDay"} => ~HasLine("WITHIN_30_DAYS")
  /\ pc \in {"start", "sameDay", "thirtyDay", "pools"} => ~HasLine("SECTION_104")
  /\ \A j \in BuyIdx :
       /\ BuyMatched(j, {"SAME_DAY"}) + BuyMatched(j, {"WITHIN_30_DAYS"})
            <= enrichedTrades[j].quantity
       /\ BuyMatched(j, {"SAME_DAY"}) = enrichedTrades[j].quantity
            => BuyMatched(j, {"WITHIN_30_DAYS"}) = 0
  /\ \A i \in SellIdx :
       \A k \in 1..Len(enrichedTrades[i].matches) : \A l \in 1..Len(enrichedTrades[i].matches) :
         k < l => RuleRank(enrichedTrades[i].matches[k].rule)
                    <= RuleRank(enrichedTrades[i].matches[l].rule)

(* C7 witness: a buy partly used by a same-day match gives its remainder to
   a 30-day match of an earlier sell, and the computation completes. *)
C7_Witness ==
  /\ pc = "done"
  /\ \E j \in BuyIdx :
       /\ BuyMatched(j, {"SAME_DAY"}) > 0
       /\ BuyMatched(j, {"WITHIN_30_DAYS"}) > 0
       /\ BuyMatched(j, {"SAME_DAY"}) + BuyMatched(j, {"WITHIN_30_DAYS"})
            = enrichedTrades[j].quantity

RECURSIVE QuantityOf(_)
QuantityOf(S) ==
  IF S = {} THEN 0
  ELSE LET i == CHOOSE x \in S : TRUE IN enrichedTrades[i].quantity + QuantityOf(S \ {i})

RECURSIVE SameDayMatchedOf(_)
SameDayMatchedOf(S) ==
  IF S = {} THEN 0
  ELSE LET i == CHOOSE x \in S : TRUE
       IN QtySum(enrichedTrades[i].matches, {"SAME_DAY"}) + SameDayMatchedOf(S \ {i})

DayGroup(side, asset, day) ==
  {i \in TradeIdx : /\ enrichedTrades[i].side = side
                    /\ enrichedTrades[i].asset = asset
                    /\ enrichedTrades[i].ts \div TicksPerDay = day}

(* the assets whose same-day matching is complete *)
SameDayDone ==
  IF pc = "sameDay"
    THEN {AssetOrder(enrichedTrades)[k] : k \in 1..(assetIdx - 1)}
    ELSE IF pc \in {"thirtyDay", "pools", "sweep", "done"} THEN Assets ELSE {}

(* C8: once an asset's same-day matching is complete, on every London day
   the SAME_DAY quantity is min(total sold, total bought) of that day; the
   lines pair sells with buys of that same day and asset, earlier sells are
   filled before later ones and earlier buys are used up before later ones. *)
C8_SameDayGreedy ==
  \A asset \in SameDayDone : \A day \in {0} \cup Days :
    LET sells == DayGroup("SELL", asset, day)
        buys == DayGroup("BUY", asset, day)
    IN /\ SameDayMatchedOf(sells) = Min(QuantityOf(sells), QuantityOf(buys))
       /\ \A i \in sells : \A k \in 1..Len(enrichedTrades[i].matches) :
            enrichedTrades[i].matches[k].rule = "SAME_DAY" =>
              \E j \in buys : enrichedTrades[j].id = enrichedTrades[i].matches[k].buyRef
       /\ \A s1 \in sells : \A s2 \in sells :
            /\ enrichedTrades[s1].ts < enrichedTrades[s2].ts
            /\ QtySum(enrichedTrades[s2].matches, {"SAME_DAY"}) > 0
            => QtySum(enrichedTrades[s1].matches, {"SAME_DAY"}) = enrichedTrades[s1].quantity
       /\ \A b1 \in buys : \A b2 \in buys :
            /\ enrichedTrades[b1].ts < enrichedTrades[b2].ts
            /\ BuyMatched(b2, {"SAME_DAY"}) > 0
            => BuyMatched(b1, {"SAME_DAY"}) = enrichedTrades[b1].quantity

(* C8 witness: two sells of one day are both matched same-day, one of them
   to a buy later than itself, and the buys of the day bound the total. *)
C8_Witness ==
  /\ pc = "done"
  /\ \E asset \in Assets : \E day \in Days :
       LET sells == DayGroup("SELL", asset, day)
           buys == DayGroup("BUY", asset, day)
       IN /\ \E s1 \in sells : \E s2 \in sells :
               /\ enrichedTrades[s1].ts < enrichedTrades[s2].ts
               /\ QtySum(enrichedTrades[s1].matches, {"SAME_DAY"}) > 0
               /\ QtySum(enrichedTrades[s2].matches, {"SAME_DAY"}) > 0
               /\ \E j \in buys : /\ enrichedTrades[j].ts > enrichedTrades[s1].ts
                                  /\ QtyAgainst(enrichedTrades[s1].matches,
                                                enrichedTrades[j].id, {"SAME_DAY"}) > 0
          /\ QuantityOf(buys) < QuantityOf(sells)
          /\ SameDayMatchedOf(sells) = QuantityOf(buys)

SnapshotAvgOk(snapshot) ==
  \A a \in Assets :
    /\ snapshot[a].avgCostGBP.n >= 0
    /\ snapshot[a].totalQty > 0 =>
         snapshot[a].avgCostGBP = Rat(snapshot[a].totalCostGBP.n,
                                      snapshot[a].totalCostGBP.d * snapshot[a].totalQty)
    /\ snapshot[a].totalQty = 0 => snapshot[a].avgCostGBP = RInt(0)

(* C9: a sell that reaches the sweep with q > 0 left and finds a pool of
   Q >= q units at cost C gets exactly one SECTION_104 line, of quantity q and
   allowable cost q*C/Q; the pool is left with Q - q units at cost C - q*C/Q,
   so its average cost is unchanged, and the other pools are untouched.  The
   average reported for a pool is cost / quantity when quantity > 0, and is
   never negative. *)
C9_PoolDraw ==
  /\ \A k \in 1..Len(poolTrace) :
       LET trade == enrichedTrades[chronological(enrichedTrades)[k]]
           q == SweepRequest(trade)
           before == PoolsBefore(k)[trade.asset]
           after == PoolsAfter(k)[trade.asset]
           share == Rat(q * before.totalCostGBP.n, before.totalCostGBP.d * before.totalQty)
           lines == LinesOf(trade, "SECTION_104")
       IN (trade.side = "SELL" /\ q > 0 /\ before.totalQty >= q) =>
            /\ Len(lines) = 1
            /\ lines[1].matchedQty = q
            /\ lines[1].allowableCostGBP = share
            /\ after.totalQty = before.totalQty - q
            /\ after.totalCostGBP = RSub(before.totalCostGBP, share)
            /\ after.totalQty > 0 =>
                 Rat(after.totalCostGBP.n, after.totalCostGBP.d * after.totalQty)
                   = Rat(before.totalCostGBP.n, before.totalCostGBP.d * before.totalQty)
            /\ \A a \in Assets \ {trade.asset} : PoolsAfter(k)[a] = PoolsBefore(k)[a]
  /\ closingSnapshot # Null => SnapshotAvgOk(closingSnapshot[1])
  /\ report # Null => SnapshotAvgOk(report[1].pools)

(* C9 witness: a sell draws part of a pool built from two buys of different
   unit cost, and the report shows the pool that is left. *)
C9_Witness ==
  /\ pc = "done"
  /\ \E k \in 1..Len(poolTrace) :
       LET trade == enrichedTrades[chronological(enrichedTrades)[k]]
           before == PoolsBefore(k)[trade.asset]
       IN /\ trade.side = "SELL"
          /\ SweepRequest(trade) > 0
          /\ before.totalQty > SweepRequest(trade)
          /\ before.totalCostGBP.d > 1 \/ before.totalCostGBP.n % before.totalQty # 0
          /\ \E i \in BuyIdx : \E j \in BuyIdx :
               /\ i # j
               /\ enrichedTrades[i].asset = trade.asset
               /\ enrichedTrades[j].asset = trade.asset
               /\ enrichedTrades[i].totalCostPerUnit # enrichedTrades[j].totalCostPerUnit
          /\ report[1].pools[trade.asset].totalQty > 0

(* the last step of the sweep whose trade is dated at or before time at *)
LastStepAtOrBefore(at) ==
  LET S == {k \in 1..Len(poolTrace) :
              enrichedTrades[chronological(enrichedTrades)[k]].ts <= at}
  IN IF S = {} THEN 0 ELSE CHOOSE k \in S : \A l \in S : l <= k

(* C10: the pools returned for snapshot time T are the pools right after the
   last trade dated <= T in the chronological sweep, and are all empty when
   no trade is dated <= T. *)
C10_SnapshotAtT ==
  (pc = "done" /\ snapshotAt # Undefined) =>
    LET k == LastStepAtOrBefore(snapshotAt)
    IN report[1].pools = IF k = 0 THEN clonePoolState(EmptyPools)
                         ELSE clonePoolState(PoolsAfter(k))

(* the part of C10 about a snapshot time that some trade precedes *)
C10_SnapshotWhenReached ==
  (pc = "done" /\ snapshotAt # Undefined /\ LastStepAtOrBefore(snapshotAt) > 0) =>
    report[1].pools = clonePoolState(PoolsAfter(LastStepAtOrBefore(snapshotAt)))

EarlyRules == {"SAME_DAY", "WITHIN_30_DAYS"}

(* the steps of the sweep, done so far, that processed trade j *)
SweepStepsOf(j) ==
  {k \in 1..Len(poolTrace) : chronological(enrichedTrades)[k] = j}

(* the quantity buy j has added to its asset's pool *)
PoolAdded(j) ==
  IF SweepStepsOf(j) = {} THEN 0
  ELSE LET k == CHOOSE x \in SweepStepsOf(j) : TRUE
           a == enrichedTrades[j].asset
       IN PoolsAfter(k)[a].totalQty - PoolsBefore(k)[a].totalQty

NoQuantityTwice ==
  /\ \A i \in SellIdx :
       QtySum(enrichedTrades[i].matches, AllRules) <= enrichedTrades[i].quantity
  /\ \A j \in BuyIdx :
       LET used == BuyMatched(j, EarlyRules) + PoolAdded(j)
       IN /\ used <= enrichedTrades[j].quantity
          /\ SweepStepsOf(j) # {} => used = enrichedTrades[j].quantity

RemainingNeverGrows ==
  Len(enrichedTrades') = Len(enrichedTrades) =>
    \A j \in BuyIdx : enrichedTrades'[j].remainingQty <= enrichedTrades[j].remainingQty

(* C25: in every state no sell is matched for more than its quantity and no
   buy has given more than its quantity to same-day lines, 30-day lines and
   the pool together (exactly its quantity once the sweep has passed it);
   and no step increases a buy's remaining quantity *)
C25_NoQuantityTwice == []NoQuantityTwice /\ [][RemainingNeverGrows]_vars

(* C25 witness: a buy of two units has given one to a same-day or 30-day
   line and the other to the pool *)
C25_Witness ==
  \E j \in BuyIdx :
    /\ BuyMatched(j, EarlyRules) = 1
    /\ PoolAdded(j) = 1
    /\ enrichedTrades[j].quantity = 2

(* C28: every issue of the report carries the id of a sell that is among the
   report's disposals *)
C28_IssuesOfListedDisposals ==
  pc = "done" =>
    \A k \in 1..Len(report[1].issues) :
      \E d \in 1..Len(report[1].disposals) :
        report[1].disposals[d].sellRef = report[1].issues[k].ref

(* C28, the part that holds: every issue carries the id of a sell of the
   input that has that issue, and a listed disposal with an exhausted pool
   keeps its match lines and its issue *)
C28_IssuesNameTheirSell ==
  pc = "done" =>
    /\ \A k \in 1..Len(report[1].issues) :
         \E i \in SellIdx :
           /\ enrichedTrades[i].id = report[1].issues[k].ref
           /\ enrichedTrades[i].issues # <<>>
    /\ \A d \in 1..Len(report[1].disposals) :
         \A i \in SellIdx :
           enrichedTrades[i].id = report[1].disposals[d].sellRef =>
             /\ report[1].disposals[d].matches = enrichedTrades[i].matches
             /\ report[1].disposals[d].issues = enrichedTrades[i].issues

(* C26: the tax year named by the label of a stored trade's by-taxyear key
   contains the trade's timestamp *)
C26_LabelContainsTs ==
  \A id \in DOMAIN store :
    LET bounds == taxYearBounds(computeTaxYearLabel(store[id]))
    IN bounds.start <= store[id].ts /\ store[id].ts <= bounds.end

(* C26, the part that holds: a stored trade dated outside 1 to 5 April is
   indexed under the tax year that contains its timestamp *)
C26_OutsideEarlyApril ==
  \A id \in DOMAIN store :
    LET bounds == taxYearBounds(computeTaxYearLabel(store[id]))
        day == store[id].ts \div TicksPerDay
    IN ~(26 <= day /\ day <= 30) =>
         bounds.start <= store[id].ts /\ store[id].ts <= bounds.end

IdRoutes == {"PUT /trades/:id", "POST /trades/lock"}

IdsKept ==
  /\ response'.route \in IdRoutes =>
       /\ DOMAIN store' = DOMAIN store
       /\ \A id \in DOMAIN store : store'[id].id = store[id].id
  /\ DOMAIN store' # DOMAIN store =>
       \/ /\ response'.route = "POST /trades"
          /\ DOMAIN store \subseteq DOMAIN store'
          /\ Cardinality(DOMAIN store') = Cardinality(DOMAIN store) + 1
       \/ /\ response'.route = "DELETE /trades/:id"
          /\ DOMAIN store' \subseteq DOMAIN store
          /\ Cardinality(DOMAIN store') = Cardinality(DOMAIN store) - 1

(* C27: the id inside every stored record is the id of its key; an update or
   a lock leaves the set of stored ids and every record's id as they were;
   the set of stored ids changes only by a create adding one id or a delete
   removing one *)
C27_IdImmutable ==
  [](\A id \in DOMAIN store : store[id].id = id) /\ [][IdsKept]_vars

(* C27 witness: a PUT was answered 200 and a stored trade whose timestamp
   was changed after its creation still carries the id of its key *)
C27_Witness ==
  /\ response = [route |-> "PUT /trades/:id", status |-> 200]
  /\ \E id \in DOMAIN store : store[id].ts # id[1] /\ store[id].id = id

(* the orderings of a sequence *)
Orderings(seq) ==
  {[i \in 1..Len(seq) |-> seq[p[i]]] : p \in Permutations(1..Len(seq))}

(* the lines of a report for one sell, whatever their order *)
ReportLines(rep, ref) ==
  {rep.matchLines[k].line : k \in {x \in 1..Len(rep.matchLines) : rep.matchLines[x].sellRef = ref}}

SameResult(a, b) ==
  /\ \A ref \in 1..MaxTrades : ReportLines(a, ref) = ReportLines(b, ref)
  /\ a.totals = b.totals
  /\ a.pools = b.pools

(* C23: the report computed for the input is the report computed, with the
   same options, for every ordering of the same trades: the same lines for
   every disposal, the same totals and the same pool snapshot *)
C23_OrderIndependent ==
  pc = "done" =>
    \A other \in Orderings(trades) :
      LET again == computeHmrc(other, snapshotAt, windowStart, windowEnd)
      IN again.ok /\ SameResult(report[1], again.report[1])

(* C23, the part that holds: computing the report again for the same trades
   in the same order gives the report, and every ordering of trades that have
   distinct timestamps gives the same result *)
C23_SameOrderSameReport ==
  pc = "done" =>
    /\ computeHmrc(trades, snapshotAt, windowStart, windowEnd) = [ok |-> TRUE, report |-> report]
    /\ (\A i, j \in 1..Len(trades) : i # j => trades[i].ts # trades[j].ts) =>
         \A other \in Orderings(trades) :
           SameResult(report[1],
                      computeHmrc(other, snapshotAt, windowStart, windowEnd).report[1])

(* what a report says of the sell ref: its lines as (rule, quantity,
   allowable cost, gain), and its issues *)
LinesOfSell(rep, ref) ==
  LET ks == SelectSeq([k \in 1..Len(rep.matchLines) |-> k],
                      LAMBDA k : rep.matchLines[k].sellRef = ref)
  IN [k \in 1..Len(ks) |->
        [rule |-> rep.matchLines[ks[k]].line.rule,
         matchedQty |-> rep.matchLines[ks[k]].line.matchedQty,
         allowableCostGBP |-> rep.matchLines[ks[k]].line.allowableCostGBP,
         gainGBP |-> rep.matchLines[ks[k]].line.gainGBP]]

IssuesOfSell(rep, ref) ==
  SelectSeq([k \in 1..Len(rep.issues) |-> rep.issues[k]], LAMBDA issue : issue.ref = ref)

(* computeHmrc over the complete history with the options of the last report *)
FullHistory == computeHmrc(loadAllTrades(store), snapshotAt, windowStart, windowEnd)

InWindowSells ==
  {id \in DOMAIN store :
     /\ store[id].side = "SELL"
     /\ windowStart <= store[id].ts /\ store[id].ts <= windowEnd}

AgreesWithFullHistory ==
  /\ FullHistory.ok
  /\ \A id \in InWindowSells :
       /\ LinesOfSell(report[1], id) = LinesOfSell(FullHistory.report[1], id)
       /\ IssuesOfSell(report[1], id) = IssuesOfSell(FullHistory.report[1], id)
  /\ report[1].pools = FullHistory.report[1].pools

(* C29: after a window report, every sell of the window has the lines and the
   issues that computeHmrc over the complete history gives it, and the pool
   snapshot is the same *)
C29_WindowEqualsFullHistory ==
  response = [route |-> "GET /tax/preview", status |-> 200] => AgreesWithFullHistory

(* C29, the part that holds: the window report agrees with the computation
   over the complete history when no stored trade is dated more than 30 days
   before from or more than 30 days after to *)
C29_AgreesWhenNothingDropped ==
  (/\ response = [route |-> "GET /tax/preview", status |-> 200]
   /\ \A id \in DOMAIN store :
        /\ store[id].ts >= windowStart - ThirtyDays
        /\ store[id].ts <= windowEnd + ThirtyDays)
    => AgreesWithFullHistory

(* the step in which a suspended update resumes and ends *)
UpdateResumes == pending # <<>> /\ pending' = <<>>

(* C22: an update that resumes after the lookup leaves a trade that was
   locked meanwhile locked, and leaves a trade that was deleted meanwhile
   absent *)
C22_UpdateAtomic ==
  [][UpdateResumes =>
       LET id == pending[1].id
       IN /\ id \notin DOMAIN store => id \notin DOMAIN store'
          /\ (id \in DOMAIN store /\ Locked(id)) =>
               (id \in DOMAIN store' /\ TruthyBool(store'[id], "locked"))]_vars

(* C22, the part that holds: an update that resumes while the record is
   still the one it read writes what the update handled whole would write,
   and in every state the stored trades have their index entries *)
C22_UndisturbedUpdate ==
  [](\A id \in DOMAIN store :
        AssetKey(store[id]) \in byAssetIdx /\ TaxYearKey(store[id]) \in byTaxYearIdx)
    /\ [][(/\ UpdateResumes
           /\ pending[1].id \in DOMAIN store
           /\ store[pending[1].id] = pending[1].existing
           /\ response'.status = 200)
          => /\ DOMAIN store' = DOMAIN store
             /\ \E answer \in FxAnswers :
                  store'[pending[1].id] = resolveDerived(pending[1].merged, answer).trade]_vars

(* the step of a list call *)
ListCall == lastList' # lastList

(* C21: the trades of a list response are in reverse chronological order:
   no trade of the response has a larger ts than the trade returned before
   it in the same response *)
C21_ReverseChronological ==
  [][ListCall =>
       LET page == lastList'[1].page.trades
       IN \A k \in 1..(Len(page) - 1) : store[page[k + 1]].ts <= store[page[k]].ts]_vars

(* C21, the part that holds: within a list response the trades are in
   descending order of their keys, that is of their ids *)
C21_PageInKeyOrder ==
  lastList # Null =>
    LET page == lastList[1].page.trades
    IN \A k \in 1..(Len(page) - 1) : KeyLess(page[k + 1], page[k])

Occurrences(seq, x) == Cardinality({k \in 1..Len(seq) : seq[k] = x})

(* C30: when the traversal has ended with a null cursor, every trade stored
   and matching the filters throughout has been returned exactly once and no
   trade twice; and a call with a cursor returns only trades that follow the
   cursor's trade in the newest-first order, whether that trade is still
   stored or not *)
C30_PagingUnderMutations ==
  /\ [](clientState.status = "ready" /\ ~clientState.hasMore =>
          /\ \A id \in steady : Occurrences(clientState.trades, id) = 1
          /\ \A id \in TradeIds : Occurrences(clientState.trades, id) <= 1)
  /\ [][LoadMore =>
          \A k \in 1..Len(lastList'[1].page.trades) :
            KeyLess(lastList'[1].page.trades[k], cursor[1])]_vars

(* C30, the part that holds: the first call of a traversal returns the
   newest matching trades, each once *)
C30_FirstPage ==
  [][(ListCall /\ lastList'[1].cursor = Null) =>
       lastList'[1].page.trades = Take(Descending(Matching(store, filters)), limit)]_vars

(* C24: in every state of the sweep each pool has quantity >= 0 and
   cost >= 0, and a sell that requests more than the pool holds leaves the
   pool with quantity 0 and cost 0 *)
C24_PoolNeverNegative ==
  /\ [](\A a \in Assets : pools[a].totalQty >= 0 /\ pools[a].totalCostGBP.n >= 0)
  /\ [][\A a \in InputAssets : \A qty \in 1..(MaxPoolQty + 1) :
          (FlSweepSell(a, qty) /\ qty > pools[a].totalQty)
            => pools'[a] = EmptyPool]_vars

(* C24, the part that holds in floating point: the pools' quantities are
   never negative and a sell that requests more than the pool holds leaves
   quantity 0 *)
C24_QuantityNeverNegative ==
  /\ [](\A a \in Assets : pools[a].totalQty >= 0)
  /\ [][\A a \in InputAssets : \A qty \in 1..(MaxPoolQty + 1) :
          (FlSweepSell(a, qty) /\ qty > pools[a].totalQty)
            => pools'[a].totalQty = 0]_vars

(* C24 in exact arithmetic: after every step of the sweep each pool has
   quantity >= 0 and cost >= 0, and a sell that requested more than the pool
   held has left quantity 0 and cost 0 *)
C24_ExactArithmetic ==
  \A k \in 1..Len(poolTrace) :
    LET trade == enrichedTrades[chronological(enrichedTrades)[k]]
    IN /\ \A a \in Assets :
            PoolsAfter(k)[a].totalQty >= 0 /\ PoolsAfter(k)[a].totalCostGBP.n >= 0
       /\ (trade.side = "SELL" /\ SweepRequest(trade) > PoolsBefore(k)[trade.asset].totalQty)
            => PoolsAfter(k)[trade.asset] = EmptyPool

====
